---- MODULE Spec2Model ----
(***************************************************************************)
(* Model of the WordPress publication path of sergiokapone/matrix:         *)
(*   core/wp_uploader.py        update_wordpress_page  (publish)           *)
(*   create_discipline_page.py  upload_html_files, save_wp_links_yaml,     *)
(*                              handle_upload, main and its actions,       *)
(*                              the page and index generators              *)
(*   interactive/filling.py     interactive_fill_mappings                  *)
(*   index_parser/index_parse.py parse_index_links (rewrite of the index)  *)
(*   core/data_validator.py     validate_data                              *)
(*   core/statistics.py         show_statistics                            *)
(*   matrix.py                  generate_matrices_from_yaml,               *)
(*                              generate_html_report                       *)
(* Text values (codes, file stems, titles, slugs) are sequences of         *)
(* one-character strings, so that replace() and slugify() are computed.    *)
(* None, 0 and the empty string/dict are all falsy in the Python tests     *)
(* `if page_id`, `elif slug`, `if data`; a falsy page id is NoId, a falsy  *)
(* slug is NoSlug, a falsy data dict is NoData.                            *)
(***************************************************************************)
EXTENDS Integers, Sequences, FiniteSets, TLC

VARIABLES
    remote,         \* the remote page store: sequence of pages, page id = index
    pc,             \* position of the running update_wordpress_page call
    call,           \* its arguments: content, page_id, slug, data
    post_data,      \* the request body built at wp_uploader.py:24-31
    found_page_id,  \* existing_pages[0]['id'] of the slug lookup
    reqs,           \* the requests this call has issued so far, in order
    result,         \* the returned tuple (success, link, message)
    caller,         \* who is waiting for the call: "direct" or "batch"
    snap,           \* the remote store as it was when the call began
    ncalls,         \* number of direct calls made (bounded by MaxCalls)
    prev,           \* the previous completed direct call
    dir,            \* the disciplines directory: NoDir or the stems of its *.html
    registry,       \* the wp_links/ directory: registry file name -> document
    bpc,            \* position of handle_upload: "idle", "loop", "wait", "done"
    run,            \* the arguments of the running handle_upload
    todo,           \* files the glob loop has still to visit
    cur,            \* the file whose page is being published
    wp_links,       \* the links collected so far (line 639)
    nruns,          \* number of handle_upload runs started (bounded by MaxRuns)
    trail,          \* what the run did, file by file, and who wrote which file
    index,          \* disciplines/index.html: its text, or NoIndex
    report,         \* what the last parse_index_links printed or raised
    nparses,        \* number of parse_index_links calls (bounded by MaxParses)
    parsed,         \* what the last parse_index_links read and wrote
    config,         \* the curriculum dataset yaml.safe_load returns
    validation,     \* errors, warnings and return value of validate_data
    workbook,       \* the three sheets generate_matrices_from_yaml writes
    html_report,    \* the two tables and the statistics of generate_html_report
    statistics,     \* the figures show_statistics prints
    cli,            \* main(): the parsed arguments, the action reached, the log
    loaded,         \* the dataset object a page generator holds when it ends
    peer,           \* a second update_wordpress_page running at the same time
    fill            \* interactive_fill_mappings: its locals and its prompts

engineVars == <<remote, pc, call, post_data, found_page_id, reqs, result, caller>>
directVars == <<snap, ncalls, prev>>
batchVars == <<dir, registry, bpc, run, todo, cur, wp_links, nruns, trail>>
rewriteVars == <<index, report, nparses, parsed>>
matrixVars == <<config, validation, workbook, html_report, statistics>>
toolVars == <<cli, loaded, peer, fill>>
vars == <<remote, pc, call, post_data, found_page_id, reqs, result, caller,
          snap, ncalls, prev,
          dir, registry, bpc, run, todo, cur, wp_links, nruns, trail,
          index, report, nparses, parsed,
          config, validation, workbook, html_report, statistics,
          cli, loaded, peer, fill>>

----------------------------------------------------------------------------
(* Bounds of the model.                                                    *)
MaxCalls == 2
MaxRuns == 2
MaxParses == 2

----------------------------------------------------------------------------
(* Text helpers.                                                           *)

\* str.replace(old, new) for one-character old and new.
Replace(s, old, new) ==
    [i \in 1..Len(s) |-> IF s[i] = old THEN new ELSE s[i]]

Lower(ch) ==
    CASE ch = "A" -> "a"
      [] ch = "B" -> "b"
      [] ch = "I" -> "i"
      [] ch = "O" -> "o"
      [] ch = "Q" -> "q"
      [] ch = "X" -> "x"
      [] ch = "Y" -> "y"
      [] ch = "Z" -> "z"
      [] OTHER -> ch

IsAlnum(ch) ==
    ch \in {"a", "b", "c", "d", "e", "h", "i", "l", "m", "n", "o", "p", "r",
            "s", "t", "x", "y", "z", "0", "1", "2", "3", "4", "5"}

\* str.lower()
LowerSeq(s) == [i \in 1..Len(s) |-> Lower(s[i])]

\* Every character lower-cased, every non-alphanumeric one turned into "-".
SlugChars(s) ==
    [i \in 1..Len(s) |-> IF IsAlnum(Lower(s[i])) THEN Lower(s[i]) ELSE "-"]

RECURSIVE SquashDashes(_)
\* Runs of "-" collapsed to one, leading "-" dropped.
SquashDashes(s) ==
    IF s = <<>> THEN <<>>
    ELSE LET rest == SquashDashes(Tail(s))
         IN  IF Head(s) = "-" /\ (rest = <<>> \/ Head(rest) = "-")
             THEN rest
             ELSE <<Head(s)>> \o rest

\* slugify(title): lower-case, non-alphanumerics to "-", runs collapsed,
\* leading and trailing "-" stripped.
Slugify(s) ==
    LET t == SquashDashes(SlugChars(s))
    IN  IF t # <<>> /\ Head(t) = "-" THEN Tail(t) ELSE t

----------------------------------------------------------------------------
(* Values.                                                                 *)
NoId == 0
NoSlug == <<>>
NoData == <<>>
NoLink == <<>>
NoText == ""

\* The slug the remote gives a page created without a slug field.
AutoSlug == <<"a", "u", "t", "o">>

CodeA1 == <<"A", " ", "0", "1">>
CodeA2 == <<"A", " ", "0", "2">>
\* The Cyrillic category prefixes are written in Latin letters: ZO, PO, PV,
\* NK, VK.
CodeZ1 == <<"Z", "O", " ", "0", "1">>
NameX == <<"X">>
NameY == <<"Y">>

\* title = f"{discipline_code}: {discipline_info['name']}"
Title(code, name) == code \o <<":", " ">> \o name

SlugA1 == Slugify(Title(CodeA1, NameX))
SlugA2 == Slugify(Title(CodeA2, NameY))

\* The link the remote reports for page id.
Link(id) == <<"link", id>>

ErrCodes == {404, 500}
ErrText(code) == IF code = 404 THEN "not found" ELSE "server error"
TimeoutText == "timed out"
BadJsonText == "bad json"

----------------------------------------------------------------------------
(* The remote page store (WordPress REST collection /wp/v2/pages).         *)

\* A page keeps the fields of the last request bodies applied to it.
PageSlug(p) == IF "slug" \in DOMAIN p THEN p.slug ELSE AutoSlug

\* GET ?slug=s : the ids of the pages with that slug, in id order.
RECURSIVE PagesWithSlug(_, _, _)
PagesWithSlug(store, s, from) ==
    IF from > Len(store) THEN <<>>
    ELSE (IF PageSlug(store[from]) = s THEN <<from>> ELSE <<>>)
         \o PagesWithSlug(store, s, from + 1)

CountSlug(store, s) == Len(PagesWithSlug(store, s, 1))

\* POST /pages : a new page holding the body.
Created(store, body) == Append(store, body)

\* POST /pages/<id> : the body's fields replace the page's.
Updated(store, id, body) == [store EXCEPT ![id] = body @@ @]

----------------------------------------------------------------------------
(* update_wordpress_page.                                                  *)

\* Mutant: the caller's fields are left out of the body.
PostData_DropsData(content, data) ==
    [content |-> content, status |-> "publish"]

\* Mutant: the two defaults override the caller's fields.
PostData_DefaultsWin(content, data) ==
    [content |-> content, status |-> "publish"] @@ data

\* post_data = {'content': content, 'status': 'publish'};
\* if data: post_data.update(data)
PostData(content, data) ==
    data @@ [content |-> content, status |-> "publish"]

Msg(kind, id, code, body) ==
    [kind |-> kind, id |-> id, code |-> code, body |-> body]

Result(success, link, message) ==
    [success |-> success, link |-> link, message |-> message]

\* What a request got back. exc is the exception the request raised
\* ("RequestException": connectivity or timeout, no status) or that reading
\* the body raised ("ValueError": the body is not JSON), else "none".
\* pages is the parsed list of a slug lookup.
Resp(status, text, exc, pages) ==
    [status |-> status, text |-> text, exc |-> exc, pages |-> pages]

Req(kind, id, slug, body, resp) ==
    [kind |-> kind, id |-> id, slug |-> slug, body |-> body, resp |-> resp]

Answered(status, pages) == Resp(status, "ok", "none", pages)
Garbled(status) == Resp(status, BadJsonText, "ValueError", <<>>)
Failed(code) == Resp(code, ErrText(code), "none", <<>>)
Raised == Resp(0, TimeoutText, "RequestException", <<>>)

\* The exceptions a request or the reading of its body raises.
Exceptions == {"RequestException", "ValueError"}

\* Mutant: no clause for the exceptions of the transport.
Catches_NotTransport(exc) == exc = "ValueError"

\* Lines 81-84: `except requests.exceptions.RequestException`, then
\* `except Exception`.
Catches(exc) == exc = "RequestException" \/ exc \in Exceptions

\* The tuple the except clauses return.
ExceptResult(exc) ==
    IF exc = "RequestException"
    THEN Result(FALSE, NoLink, Msg("connection_error", NoId, 0, TimeoutText))
    ELSE Result(FALSE, NoLink, Msg("unexpected_error", NoId, 0, BadJsonText))

\* Where a request that is the call's last leaves it: returned, or left by
\* an exception no clause caught.
EndOf(resp) ==
    IF resp.exc # "none" /\ ~Catches(resp.exc) THEN "raised" ELSE "done"

\* Lines 40-44 and 63-67: the result of an update from its response.
UpdateResult(id, resp, okKind) ==
    IF resp.exc = "RequestException" THEN ExceptResult(resp.exc)
    ELSE IF resp.status = 200
    THEN IF resp.exc = "none"
         THEN Result(TRUE, Link(id), Msg(okKind, id, 0, NoText))
         ELSE ExceptResult(resp.exc)
    ELSE Result(FALSE, NoLink, Msg("update_error", NoId, resp.status, resp.text))

\* Lines 72-76: the result of a create from its response.
CreateResult(newId, resp) ==
    IF resp.exc = "RequestException" THEN ExceptResult(resp.exc)
    ELSE IF resp.status = 201
    THEN IF resp.exc = "none"
         THEN Result(TRUE, Link(newId), Msg("created", NoId, 0, NoText))
         ELSE ExceptResult(resp.exc)
    ELSE Result(FALSE, NoLink, Msg("create_error", NoId, resp.status, resp.text))

\* Lines 50-53 and the except clauses: the result of a lookup that ends
\* the call.
LookupFailure(resp) ==
    IF resp.exc = "RequestException" THEN ExceptResult(resp.exc)
    ELSE IF resp.status # 200
    THEN Result(FALSE, NoLink, Msg("check_error", NoId, resp.status, NoText))
    ELSE ExceptResult(resp.exc)

\* Mutant: the lookup's answer is not looked at.
ExistingPage_Never(pages) == FALSE

\* Line 55, `if existing_pages:`.
ExistingPage(pages) == pages # <<>>

\* Line 57, existing_pages[0]['id'].
FoundPageId(pages) == pages[1]

\* requests.post(f"{WP_URL}/{id}", json=post_data) at lines 38 and 61: the
\* remote answers 200 and updates the page, answers an error status (404
\* for an id it does not hold), or the request raises, before or after the
\* remote has applied it.
UpdateRequest(id, body, okKind, log) ==
    \E resp \in {Answered(200, <<>>), Garbled(200), Failed(404), Failed(500),
                 Raised} :
    \E applied \in BOOLEAN :
        /\ resp.status = 200 => applied /\ id \in 1..Len(remote)
        /\ resp.status \in ErrCodes => ~applied
        /\ id \notin 1..Len(remote) => ~applied
        /\ remote' = IF applied THEN Updated(remote, id, body) ELSE remote
        /\ reqs' = Append(log, Req("update", id, NoSlug, body, resp))
        /\ result' = UpdateResult(id, resp, okKind)
        /\ pc' = EndOf(resp)

\* requests.post(WP_URL, json=post_data) at line 70.
CreateRequest(body, log) ==
    \E resp \in {Answered(201, <<>>), Garbled(201), Failed(500), Raised} :
    \E applied \in BOOLEAN :
        /\ resp.status = 201 => applied
        /\ resp.status \in ErrCodes => ~applied
        /\ remote' = IF applied THEN Created(remote, body) ELSE remote
        /\ reqs' = Append(log, Req("create", NoId, NoSlug, body, resp))
        /\ result' = CreateResult(Len(remote) + 1, resp)
        /\ pc' = EndOf(resp)

\* requests.get(WP_URL, params={"slug": slug}) at line 48 and lines 50-57.
LookupRequest(slug) ==
    \E resp \in {Answered(200, PagesWithSlug(remote, slug, 1)), Garbled(200),
                 Failed(500), Raised} :
        /\ remote' = remote
        /\ reqs' = <<Req("lookup", NoId, slug, NoData, resp)>>
        /\ IF resp.status = 200 /\ resp.exc = "none"
           THEN /\ result' = result
                /\ IF ExistingPage(resp.pages)
                   THEN found_page_id' = FoundPageId(resp.pages) /\ pc' = "update"
                   ELSE found_page_id' = NoId /\ pc' = "create"
           ELSE /\ result' = LookupFailure(resp)
                /\ found_page_id' = NoId
                /\ pc' = EndOf(resp)

\* Mutant: the slug is tried before the page id.
Route_SlugFirst(page_id, slug) ==
    IF slug # NoSlug THEN "by_slug"
    ELSE IF page_id # NoId THEN "by_id"
    ELSE "none"

\* The branch taken at lines 35, 47 and 78.
Route(page_id, slug) ==
    IF page_id # NoId THEN "by_id"
    ELSE IF slug # NoSlug THEN "by_slug"
    ELSE "none"

\* Entry of update_wordpress_page up to the return of its first request
\* (lines 24-57 and 78-79).
Publish(content, page_id, slug, data, who) ==
    /\ pc = "idle"
    /\ call' = [content |-> content, page_id |-> page_id, slug |-> slug,
                data |-> data]
    /\ caller' = who
    /\ post_data' = PostData(content, data)
    /\ CASE Route(page_id, slug) = "by_id" ->
              /\ UpdateRequest(page_id, PostData(content, data), "updated", <<>>)
              /\ found_page_id' = NoId
         [] Route(page_id, slug) = "by_slug" ->
              LookupRequest(slug)
         [] OTHER ->
              /\ pc' = "done"
              /\ result' = Result(FALSE, NoLink,
                                  Msg("need_id_or_slug", NoId, 0, NoText))
              /\ reqs' = <<>>
              /\ found_page_id' = NoId
              /\ remote' = remote

\* The update of the page the lookup found (lines 58-67).
PublishUpdateFound ==
    /\ pc = "update"
    /\ UpdateRequest(found_page_id, post_data, "updated_existing", reqs)
    /\ UNCHANGED <<call, post_data, found_page_id, caller>>

\* The creation of a page the lookup did not find (lines 69-76).
PublishCreate ==
    /\ pc = "create"
    /\ CreateRequest(post_data, reqs)
    /\ UNCHANGED <<call, post_data, found_page_id, caller>>

----------------------------------------------------------------------------
(* Direct callers of update_wordpress_page: any arguments.                 *)

Contents == {<<"c1">>, <<"c2">>}
PageIds == {NoId, 1, 3}
Slugs == {NoSlug, SlugA1}

\* The fields upload_html_files passes (lines 665-670).
PageFields(title, slug, parent) ==
    [title |-> title, slug |-> slug, parent |-> parent, status |-> "publish"]

DataChoices ==
    { NoData,
      PageFields(Title(CodeA1, NameX), SlugA1, 10),
      [title |-> Title(CodeA1, NameX)],
      [status |-> "draft"],
      [content |-> <<"c2">>, slug |-> SlugA1] }

NoCall == [content |-> <<>>, page_id |-> NoId, slug |-> NoSlug, data |-> NoData]
NoResult == Result(FALSE, NoLink, Msg("none", NoId, 0, NoText))
NoPrev == [call |-> NoCall, result |-> NoResult, reqs |-> <<>>, snap |-> <<>>]

OldPage(parent) ==
    [slug |-> SlugA1, content |-> <<"c0">>, status |-> "publish", parent |-> parent]

\* The remote before the first call: no page, a page with the slug, or
\* two pages with the slug under different parents.
InitRemotes == { <<>>, <<OldPage(10)>>, <<OldPage(11), OldPage(10)>> }

DirectCall ==
    /\ ncalls < MaxCalls
    /\ \E content \in Contents, page_id \in PageIds, slug \in Slugs,
          data \in DataChoices :
          Publish(content, page_id, slug, data, "direct")
    /\ snap' = remote
    /\ ncalls' = ncalls + 1
    /\ prev' = prev
    /\ UNCHANGED batchVars

\* The call returns: its locals are gone.
Returned ==
    /\ pc' = "idle"
    /\ call' = NoCall
    /\ post_data' = NoData
    /\ found_page_id' = NoId
    /\ reqs' = <<>>
    /\ result' = NoResult
    /\ caller' = "none"
    /\ remote' = remote

DirectReturn ==
    /\ pc = "done"
    /\ caller = "direct"
    /\ Returned
    /\ prev' = [call |-> call, result |-> result, reqs |-> reqs, snap |-> snap]
    /\ UNCHANGED <<snap, ncalls>>
    /\ UNCHANGED batchVars

----------------------------------------------------------------------------
(* The dataset files and the disciplines directory.                        *)

\* A path is the sequence of its components, the file name split into
\* stem and suffix; Path(p).stem is the component before the suffix.
PathStem(path) == path[Len(path) - 1]

YamlBachelor == <<"data", "bachelor", ".yaml">>
YamlBachelor23 == <<"data", "2023", "bachelor", ".yaml">>
YamlMaster == <<"data", "master", ".yaml">>
YamlDraft == <<"data", "draft", ".yaml">>
YamlFiles == {YamlBachelor, YamlBachelor23, YamlMaster, YamlDraft}

\* Two more dataset files, given on the command line only.
YamlBlank == <<"data", "blank", ".yaml">>
YamlSlash == <<"data", "slash", ".yaml">>
DatasetFiles == YamlFiles \cup {YamlBlank, YamlSlash}

CodeA1Slash2 == <<"A", " ", "0", "1", "/", "2">>
CodeB1Underscore == <<"B", "_", "0", "1">>

NameZ == <<"Z">>
Entry(name) == [name |-> name]

\* load_yaml_data(yaml_file): the parsed dataset. Every discipline entry
\* carries its display name. The 2023 dataset lists A 01 in both catalogs,
\* the master dataset has no year and a discipline of the category ZO, the
\* draft has no page_id; the blank dataset has `page_id:` with nothing
\* after it (None); the slash dataset has codes with a slash and with an
\* underscore, and the id of a page the remote holds. The elective A 01 of 2023 names its lecturer by id.
Data(y) ==
    CASE y = YamlBachelor ->
           [metadata |-> [year |-> "2024", degree |-> "bachelor", page_id |-> 10],
            disciplines |-> (CodeA1 :> Entry(NameX)) @@ (CodeA2 :> Entry(NameY))]
      [] y = YamlBachelor23 ->
           [metadata |-> [year |-> "2023", degree |-> "bachelor", page_id |-> 11],
            disciplines |-> (CodeA1 :> Entry(NameX)),
            elevative_disciplines |->
                (CodeA1 :> [name |-> NameZ, lecturer_id |-> 7])]
      [] y = YamlMaster ->
           [metadata |-> [degree |-> "master", page_id |-> 12],
            disciplines |-> (CodeA2 :> Entry(NameY)) @@ (CodeZ1 :> Entry(NameX)),
            elevative_disciplines |-> <<>>]
      [] y = YamlBlank ->
           [metadata |-> [year |-> "2024", degree |-> "bachelor", page_id |-> NoId],
            disciplines |-> (CodeA1 :> Entry(NameX))]
      [] y = YamlSlash ->
           [metadata |-> [year |-> "2024", degree |-> "master", page_id |-> 1],
            disciplines |-> (CodeZ1 :> Entry(NameX)) @@ (CodeA1Slash2 :> Entry(NameY)),
            elevative_disciplines |-> (CodeB1Underscore :> Entry(NameZ))]
      [] OTHER ->
           [metadata |-> [year |-> "2025", degree |-> "bachelor"],
            disciplines |-> (CodeA1 :> Entry(NameX))]

\* dict.get(key, default)
Get(d, key, default) == IF key \in DOMAIN d THEN d[key] ELSE default

\* Line 642: {**yaml_data['disciplines'],
\*            **yaml_data.get('elevative_disciplines', {})}
AllDisciplines(yaml_data) ==
    Get(yaml_data, "elevative_disciplines", <<>>) @@ yaml_data.disciplines

\* get_parent_id: yaml_data['metadata']['page_id'], or the process exits.
HasParentId(yaml_data) ==
    "metadata" \in DOMAIN yaml_data /\ "page_id" \in DOMAIN yaml_data.metadata

NoDir == {<<"no such directory">>}
IndexStem == <<"i", "n", "d", "e", "x">>
StemA1 == <<"A", "_", "0", "1">>
StemA2 == <<"A", "_", "0", "2">>
StemB1 == <<"B", "_", "0", "1">>

\* The directory as page generation has left it, with the page of a
\* discipline no dataset lists any more, and one a user has put a second
\* copy of a page and a capitalised index into.
DirChoices ==
    { NoDir,
      {IndexStem, StemA1, StemA2, StemB1},
      {<<"I", "n", "d", "e", "x">>, StemA1, CodeA1} }

\* Line 645: html_file.name.lower() == "index.html"
IsIndex(stem) == LowerSeq(stem) = IndexStem

\* Line 648: html_file.stem.replace('_', ' ')
DisciplineCode(stem) == Replace(stem, "_", " ")

\* Line 258: discipline_code.replace(" ", "_").replace("/", "_")
GetSafeFilename(discipline_code) ==
    Replace(Replace(discipline_code, " ", "_"), "/", "_")

\* read_html_file of a readable file.
FileContent(stem) == <<"html of">> \o stem

----------------------------------------------------------------------------
(* The link registry files.                                                *)

NoFile == [absent |-> TRUE]

\* Mutant: the default output_file of save_wp_links_yaml, for every dataset.
RegistryFile_Default(yaml_file) == <<"wp_links", ".yaml">>

\* Line 745: Path("wp_links") / f"wp_links_{yaml_name}.yaml"
RegistryFile(yaml_file) == <<"wp_links", <<"wp_links_", PathStem(yaml_file)>>, ".yaml">>

RegistryFiles == {RegistryFile(y) : y \in DatasetFiles}

\* Lines 680-689: the structure upload_html_files returns.
WpData(yaml_data, links) ==
    [year |-> Get(Get(yaml_data, "metadata", <<>>), "year", ""),
     degree |-> Get(Get(yaml_data, "metadata", <<>>), "degree", ""),
     links |-> links]

\* Mutant: the links are merged into those the file holds.
Saved_Merging(files, output_file, wp_data) ==
    LET old == files[output_file]
    IN  [files EXCEPT ![output_file] =
            IF old = NoFile THEN wp_data
            ELSE [wp_data EXCEPT !.links = wp_data.links @@ old.links]]

\* save_wp_links_yaml: open(output_path, "w") and yaml.dump(wp_data).
Saved(files, output_file, wp_data) == [files EXCEPT ![output_file] = wp_data]

\* Mutant: the registry is saved whatever save_yaml says.
ShouldSave_Always(save_yaml) == TRUE

\* Line 743, `if save_yaml:`.
ShouldSave(save_yaml) == save_yaml

----------------------------------------------------------------------------
(* handle_upload and upload_html_files.                                    *)

NoRun == [yaml_file |-> <<>>, save_yaml |-> FALSE, files |-> {}]
\* No run has been cancelled.
NoCancel ==
    [happened |-> FALSE, run |-> 0, yaml_file |-> <<>>, files |-> {},
     remote |-> <<>>, registry |-> <<>>, before |-> <<>>, published |-> {}]

NoTrail ==
    [attempts |-> <<>>, outcome |-> <<>>, unread |-> {}, writes |-> 0,
     cancelled |-> NoCancel,
     before |-> [f \in RegistryFiles |-> NoFile],
     writers |-> [f \in RegistryFiles |-> {}],
     writer |-> [f \in RegistryFiles |-> <<>>]]

\* handle_upload(yaml_file, disciplines_dir, save_yaml=save_yaml) to the
\* start of the loop of upload_html_files (lines 727-742 and 639-644).
\* check_dir is True at the call in main.
HandleUploadOf(yaml_file, save_yaml) ==
    /\ bpc \in {"idle", "done"}
    /\ pc = "idle"
    /\ nruns' = nruns + 1
    /\ run' = [yaml_file |-> yaml_file, save_yaml |-> save_yaml,
               files |-> IF dir = NoDir THEN {} ELSE dir]
    /\ IF dir = NoDir \/ ~HasParentId(Data(yaml_file))
       THEN /\ bpc' = "idle"
            /\ UNCHANGED <<todo, wp_links>>
       ELSE /\ bpc' = "loop"
            /\ todo' = dir
            /\ wp_links' = <<>>
    /\ cur' = <<>>
    /\ trail' = [trail EXCEPT !.attempts = [f \in (IF dir = NoDir THEN {} ELSE dir) |-> 0],
                              !.outcome = <<>>,
                              !.unread = {},
                              !.writes = 0,
                              !.before = registry]
    /\ UNCHANGED <<dir, registry>>
    /\ UNCHANGED engineVars
    /\ UNCHANGED directVars

\* Runs of handle_upload for any dataset file, saving or not.
HandleUpload ==
    /\ nruns < MaxRuns
    /\ \E yaml_file \in YamlFiles, save_yaml \in BOOLEAN :
          HandleUploadOf(yaml_file, save_yaml)

\* One pass of the loop body up to the return of the first request of
\* update_wordpress_page (lines 644-671).
UploadFile ==
    /\ bpc = "loop"
    /\ \E html_file \in todo :
       LET discipline_code == DisciplineCode(html_file)
           all_disciplines == AllDisciplines(Data(run.yaml_file))
       IN  /\ todo' = todo \ {html_file}
           /\ \/ /\ IsIndex(html_file) \/ discipline_code \notin DOMAIN all_disciplines
                 /\ UNCHANGED <<bpc, cur, trail>>
                 /\ UNCHANGED engineVars
              \/ /\ ~IsIndex(html_file)
                 /\ discipline_code \in DOMAIN all_disciplines
                 /\ \/ /\ trail' = [trail EXCEPT !.unread = @ \cup {html_file}]
                       /\ UNCHANGED <<bpc, cur>>
                       /\ UNCHANGED engineVars
                    \/ LET title == Title(discipline_code,
                                          all_disciplines[discipline_code].name)
                           slug == Slugify(title)
                       IN  /\ Publish(FileContent(html_file), NoId, slug,
                                      PageFields(title, slug,
                                                 Data(run.yaml_file).metadata.page_id),
                                      "batch")
                           /\ bpc' = "wait"
                           /\ cur' = html_file
                           /\ trail' = [trail EXCEPT !.attempts[html_file] = @ + 1]
    /\ UNCHANGED <<dir, registry, run, wp_links, nruns>>
    /\ UNCHANGED directVars

\* Mutant: a failed publish ends the loop.
Remaining_StopOnFailure(rest, success) == IF success THEN rest ELSE {}

\* Lines 673-677 have no break, return or raise: the loop goes on with the
\* files left whatever the result was.
Remaining(rest, success) == rest

\* Lines 673-677: the result of update_wordpress_page is collected.
UploadCollect ==
    /\ bpc = "wait"
    /\ pc = "done"
    /\ caller = "batch"
    /\ Returned
    /\ wp_links' = IF result.success
                   THEN (DisciplineCode(cur) :> result.link) @@ wp_links
                   ELSE wp_links
    /\ todo' = Remaining(todo, result.success)
    /\ trail' = [trail EXCEPT !.outcome =
                      (cur :> [success |-> result.success, link |-> result.link]) @@ @]
    /\ bpc' = "loop"
    /\ cur' = <<>>
    /\ UNCHANGED <<dir, registry, run, nruns>>
    /\ UNCHANGED directVars

\* The loop is over: lines 679-691 and 742-745.
FinishUpload ==
    /\ bpc = "loop"
    /\ todo = {}
    /\ bpc' = "done"
    /\ LET wp_data == WpData(Data(run.yaml_file), wp_links)
           output_file == RegistryFile(run.yaml_file)
       IN  IF ShouldSave(run.save_yaml)
           THEN /\ registry' = Saved(registry, output_file, wp_data)
                /\ trail' = [trail EXCEPT !.writes = @ + 1,
                                          !.writers[output_file] = @ \cup {run.yaml_file},
                                          !.writer[output_file] = run.yaml_file]
           ELSE UNCHANGED <<registry, trail>>
    /\ UNCHANGED <<dir, run, todo, cur, wp_links, nruns>>
    /\ UNCHANGED engineVars
    /\ UNCHANGED directVars

----------------------------------------------------------------------------
(* parse_index_links: the links of the index rewritten from the registry.  *)

NoIndex == <<"no such file">>
NoParse ==
    [data_yaml |-> <<>>, before |-> NoIndex, wp_data |-> NoFile, wp |-> <<>>,
     writes |-> 0, run |-> 0, again |-> FALSE]

\* The alternatives (ЗО|ПО|ПВ|НК|ВК) of the pattern at line 99.
Prefixes ==
    { <<"Z", "O">>, <<"P", "O">>, <<"P", "V">>, <<"N", "K">>, <<"V", "K">> }

\* \d
Digits == {"0", "1", "2", "3", "4", "5", "6", "7", "8", "9"}

HrefOpen == <<"h", "r", "e", "f", "=", "\"">>
DotHtmlClose == <<".", "h", "t", "m", "l", "\"">>
Quote == <<"\"">>

\* The character at position i, or nothing past the end of the text.
At(s, i) == IF i \in 1..Len(s) THEN s[i] ELSE ""

\* The text s has lit at position i.
StartsWith(s, i, lit) ==
    /\ i + Len(lit) - 1 <= Len(s)
    /\ SubSeq(s, i, i + Len(lit) - 1) = lit

\* \d+ : the length of the run of digits at position i.
RECURSIVE DigitRun(_, _)
DigitRun(s, i) == IF At(s, i) \in Digits THEN 1 + DigitRun(s, i + 1) ELSE 0

NoMatch == [code |-> <<>>, end |-> 0]

\* The match at position i of
\*   href="((p1|p2|...)[ _]\d{2}(?:\.\d+)?)\.html"
\* for the alternatives in prefixes: group 1 and the position of the last
\* character matched, or NoMatch.
MatchWith(prefixes, html, i) ==
    LET a == i + Len(HrefOpen)
        ps == {p \in prefixes : StartsWith(html, a, p)}
    IN  IF ~StartsWith(html, i, HrefOpen) \/ ps = {} THEN NoMatch
        ELSE LET p == CHOOSE q \in ps : \A r \in ps : Len(q) >= Len(r)
                 b == a + Len(p) + 3
                 k == DigitRun(html, b + 1)
             IN  IF ~(/\ At(html, b - 3) \in {" ", "_"}
                      /\ At(html, b - 2) \in Digits
                      /\ At(html, b - 1) \in Digits)
                 THEN NoMatch
                 ELSE IF At(html, b) = "." /\ k > 0
                         /\ StartsWith(html, b + 1 + k, DotHtmlClose)
                 THEN [code |-> SubSeq(html, a, b + k),
                       end |-> b + k + Len(DotHtmlClose)]
                 ELSE IF StartsWith(html, b, DotHtmlClose)
                 THEN [code |-> SubSeq(html, a, b - 1),
                       end |-> b - 1 + Len(DotHtmlClose)]
                 ELSE NoMatch

\* Line 99: the compiled pattern.
MatchAt(html, i) == MatchWith(Prefixes, html, i)

RECURSIVE LStrip(_)
LStrip(s) == IF s # <<>> /\ Head(s) = " " THEN LStrip(Tail(s)) ELSE s

RECURSIVE RStrip(_)
RStrip(s) ==
    IF s # <<>> /\ s[Len(s)] = " " THEN RStrip(SubSeq(s, 1, Len(s) - 1)) ELSE s

\* str.strip()
Strip(s) == RStrip(LStrip(s))

\* Mutant: the code is looked up as the href spells it.
Normalized_AsSpelled(group1) == group1

\* Line 117: match.group(1).replace('_', ' ').strip()
Normalized(group1) == Strip(Replace(group1, "_", " "))

DigitChars == <<"0", "1", "2", "3", "4", "5", "6", "7", "8", "9">>

\* str(n) of a natural number.
RECURSIVE Decimal(_)
Decimal(n) ==
    IF n < 10 THEN <<DigitChars[n + 1]>>
    ELSE Decimal(n \div 10) \o <<DigitChars[(n % 10) + 1]>>

\* The text of the link the remote reported for a page.
UrlText(link) == <<"w", "p", "/">> \o Decimal(link[2])

Placeholder == <<"#">>

\* Line 121: wp_links.get(code, "#"), as the f-string of line 124 prints it.
WpUrl(wp_links_map, code) ==
    IF code \in DOMAIN wp_links_map THEN UrlText(wp_links_map[code])
    ELSE Placeholder

\* Mutant: the new href is put in front of the old one, which stays.
ReplaceHref_Prepends(group1, wp_links_map) ==
    HrefOpen \o WpUrl(wp_links_map, Normalized(group1)) \o Quote \o <<" ">>
        \o HrefOpen \o group1 \o DotHtmlClose

\* replace_href (lines 101-124).
ReplaceHref(group1, wp_links_map) ==
    HrefOpen \o WpUrl(wp_links_map, Normalized(group1)) \o Quote

\* The positions from i on at which the pattern matches.
MatchesFrom(html, i) == {j \in i..Len(html) : MatchAt(html, j).end # 0}

\* The least element of a non-empty set of positions.
First(positions) == CHOOSE j \in positions : \A k \in positions : j <= k

\* pattern.sub(replace_href, html) from position i: the matches are taken
\* left to right, each match replaced, everything else copied.
RECURSIVE Sub(_, _, _)
Sub(html, i, wp_links_map) ==
    IF MatchesFrom(html, i) = {} THEN SubSeq(html, i, Len(html))
    ELSE LET j == First(MatchesFrom(html, i))
             m == MatchAt(html, j)
         IN  SubSeq(html, i, j - 1) \o ReplaceHref(m.code, wp_links_map)
                 \o Sub(html, m.end + 1, wp_links_map)

\* Mutant: the text is lower-cased on the way.
Rewritten_Lowered(html, wp_links_map) == LowerSeq(Sub(html, 1, wp_links_map))

\* Line 127: html_new = pattern.sub(replace_href, html)
Rewritten(html, wp_links_map) == Sub(html, 1, wp_links_map)

\* Mutant: the registry of a fixed name, whatever the dataset.
WpLinksYaml_Fixed(data_yaml) == <<"wp_links", <<"wp_links_", "bachelor">>, ".yaml">>

\* Lines 64-65: Path("wp_links") / f"wp_links_{Path(data_yaml).stem}.yaml"
WpLinksYaml(data_yaml) ==
    <<"wp_links", <<"wp_links_", PathStem(data_yaml)>>, ".yaml">>

\* Lines 72-75: what is taken from the registry document.
Lookup(wp_data) ==
    [links |-> Get(wp_data, "links", <<>>),
     year |-> Get(wp_data, "year", ""),
     degree |-> Get(wp_data, "degree", "")]

\* Lines 83-84: year and degree of the dataset.
MetaOf(meta_data) ==
    [year |-> Get(Get(meta_data, "metadata", <<>>), "year", ""),
     degree |-> Get(Get(meta_data, "metadata", <<>>), "degree", "")]

\* Mutant: only a registry that differs in both fields is refused.
Mismatch_Both(wp, meta) == wp.year # meta.year /\ wp.degree # meta.degree

\* Line 87: wp_year != year or wp_degree != degree
Mismatch(wp, meta) == wp.year # meta.year \/ wp.degree # meta.degree

\* An anchor of the index, <a href="target">.
Anchor(target) == <<"<", "a", " ">> \o HrefOpen \o target \o Quote \o <<">">>

Html == <<".", "h", "t", "m", "l">>

\* The index documents: links spelled with underscore and with space, a
\* decimal suffix, a category that is not one of the five; a one-digit
\* number; a link into a directory, another extension, a style sheet.
IndexFull ==
    <<"A", " ">> \o Anchor(<<"Z", "O", "_", "0", "1">> \o Html) \o <<"x">>
        \o Anchor(<<"Z", "O", " ", "0", "1">> \o Html) \o <<" ">>
        \o Anchor(<<"A", "_", "0", "2">> \o Html)
        \o Anchor(<<"P", "V", "_", "0", "3", ".", "1">> \o Html)

IndexChoices ==
    { NoIndex,
      IndexFull,
      Anchor(<<"N", "K", " ", "0", "7">> \o Html)
          \o Anchor(<<"A", "_", "0", "1">> \o Html)
          \o Anchor(<<"Z", "O", "_", "1">> \o Html) \o <<" ", "Y">>,
      Anchor(<<"x", "/", "Z", "O", "_", "0", "1">> \o Html)
          \o Anchor(<<"Z", "O", "_", "0", "1", ".", "h", "t", "m">>)
          \o Anchor(<<"s", ".", "c", "s", "s">>) \o <<"I">>
          \o Anchor(<<"A", "_", "0", "2">> \o Html) }

\* The registry as publish runs leave it: no file, or the file of one
\* dataset holding the links of the pages that were published; and the
\* file a run left before the degree of the master dataset was respelled.
PageOf == (CodeA1 :> 1) @@ (CodeA2 :> 2) @@ (CodeZ1 :> 3)

LinksOf(codes) == [c \in codes |-> Link(PageOf[c])]

RegistryChoices ==
    { [f \in RegistryFiles |-> NoFile] }
    \cup
    UNION { { Saved([f \in RegistryFiles |-> NoFile], RegistryFile(y),
                    WpData(Data(y), LinksOf(codes))) :
                codes \in SUBSET DOMAIN AllDisciplines(Data(y)) } :
            y \in {YamlBachelor, YamlBachelor23, YamlMaster} }
    \cup
    { Saved([f \in RegistryFiles |-> NoFile], RegistryFile(YamlMaster),
            WpData([metadata |-> [degree |-> "Master"]], LinksOf({CodeZ1}))) }

\* data_yaml=None, the default of parse_index_links.
NoYaml == <<>>

\* parse_index_links(index_file, data_yaml) (lines 56-133). Path(None) at
\* line 64 raises TypeError; an exception of open() (no registry file) is
\* not caught either. `again` notes that the call before this one rewrote
\* the index from the same registry document.
ParseIndexLinksOf(data_yaml) ==
    LET read == [data_yaml |-> data_yaml, before |-> index,
                 wp_data |-> NoFile, wp |-> <<>>, writes |-> 0,
                 run |-> IF bpc = "done" THEN nruns ELSE 0,
                 again |-> FALSE]
    IN  IF index = NoIndex
        THEN /\ report' = "not_found"
             /\ parsed' = read
             /\ UNCHANGED index
        ELSE IF data_yaml = NoYaml
        THEN /\ report' = "type_error"
             /\ parsed' = read
             /\ UNCHANGED index
        ELSE LET wp_data == registry[WpLinksYaml(data_yaml)]
                 wp == Lookup(wp_data)
                 meta == MetaOf(Data(data_yaml))
             IN  IF wp_data = NoFile
                 THEN /\ report' = "raised"
                      /\ parsed' = read
                      /\ UNCHANGED index
                 ELSE IF data_yaml # NoYaml /\ Mismatch(wp, meta)
                 THEN /\ report' = "mismatch"
                      /\ parsed' = [read EXCEPT !.wp_data = wp_data, !.wp = wp]
                      /\ UNCHANGED index
                 ELSE /\ report' = "replaced"
                      /\ parsed' = [read EXCEPT !.wp_data = wp_data, !.wp = wp,
                                                !.writes = 1,
                                                !.again = /\ report = "replaced"
                                                          /\ parsed.wp_data = wp_data]
                      /\ index' = Rewritten(index, wp.links)

\* handle_parse_index passes the dataset file of the command line; other
\* callers may leave data_yaml out. The command line runs one action at a
\* time, so no handle_upload is under way.
ParseIndexLinks ==
    /\ bpc \in {"idle", "done"}
    /\ nparses < MaxParses
    /\ nparses' = nparses + 1
    /\ \E data_yaml \in YamlFiles \cup {NoYaml} : ParseIndexLinksOf(data_yaml)
    /\ UNCHANGED <<engineVars, directVars, batchVars, matrixVars, toolVars>>

----------------------------------------------------------------------------
(* The curriculum dataset of the matrix tools (validate_data,              *)
(* show_statistics, generate_matrices_from_yaml, generate_html_report).    *)
(* A catalog (a dict code -> description) is the sequence of its keys in   *)
(* the order of the file; the mappings dict is the sequence of its         *)
(* <<discipline code, entry>> pairs; an entry is a dict with the optional  *)
(* keys competencies and program_results, each a list of codes.            *)

NoConfig == [absent |-> TRUE]
NoOutput == [absent |-> TRUE]

\* A dict with no keys.
NoKeys == [k \in {} |-> k]

\* The section is absent from the file, or holds one of the values.
Sections(key, values) == {NoKeys} \cup {(key :> v) : v \in values}

DisciplineCatalogs == {<<>>, <<"A01">>, <<"A01", "A02">>, <<"A02", "A01">>}
CompetencyCatalogs == {<<>>, <<"C1">>, <<"C1", "C2">>, <<"C2", "C1">>}
ProgramResultCatalogs == {<<>>, <<"P1">>}

MapEntry(comps, progs) == [competencies |-> comps, program_results |-> progs]

\* No entry; one discipline filled; both filled, in either order, one
\* without program_results; codes no catalog has; a discipline no catalog
\* has; a code listed twice; two entries for one discipline of the catalog.
MappingChoices ==
    { <<>>,
      << <<"A01", MapEntry(<<"C1">>, <<>>)>> >>,
      << <<"A01", MapEntry(<<"C1", "C2">>, <<"P1">>)>>,
         <<"A02", [competencies |-> <<"C2">>]>> >>,
      << <<"A02", [competencies |-> <<"C2">>]>>,
         <<"A01", MapEntry(<<"C2", "C1">>, <<"P1">>)>> >>,
      << <<"A01", MapEntry(<<"C1", "C9">>, <<"P9">>)>> >>,
      << <<"X9", MapEntry(<<"C1">>, <<"P1">>)>>,
         <<"A01", MapEntry(<<"C2">>, <<"P9">>)>> >>,
      << <<"A02", MapEntry(<<"C1", "C1">>, <<"P1">>)>> >>,
      << <<"A01", NoKeys>>, <<"X9", NoKeys>> >> }

ConfigChoices ==
    { d @@ c @@ p @@ m :
        d \in Sections("disciplines", DisciplineCatalogs),
        c \in Sections("competencies", CompetencyCatalogs),
        p \in Sections("program_results", ProgramResultCatalogs),
        m \in Sections("mappings", MappingChoices) }

\* The elements of a list.
Range(list) == {list[i] : i \in 1..Len(list)}

\* code in catalog
Has(catalog, code) == \E i \in 1..Len(catalog) : catalog[i] = code

\* key in mappings
HasKey(mappings, key) == \E i \in 1..Len(mappings) : mappings[i][1] = key

\* mappings.get(key, {})
MappingGet(mappings, key) ==
    IF HasKey(mappings, key)
    THEN mappings[CHOOSE i \in 1..Len(mappings) : mappings[i][1] = key][2]
    ELSE NoKeys

\* config[key] raises KeyError for a section the file does not have.
Missing(cfg, keys) == \E k \in keys : k \notin DOMAIN cfg

Thrown(exc) == [raised |-> exc]

----------------------------------------------------------------------------
(* validate_data (core/data_validator.py).                                 *)

Err(kind, code, disc) == [kind |-> kind, code |-> code, disc |-> disc]

\* Lines 27-32: one error for each catalog that is falsy.
StructureErrors(disciplines, competencies, program_results) ==
    (IF disciplines = <<>>
     THEN <<Err("missing_section", "disciplines", "")>> ELSE <<>>)
    \o (IF competencies = <<>>
        THEN <<Err("missing_section", "competencies", "")>> ELSE <<>>)
    \o (IF program_results = <<>>
        THEN <<Err("missing_section", "program_results", "")>> ELSE <<>>)

\* Mutant: only the first code no catalog has is reported.
CodeErrors_FirstOnly(kind, codes, catalog, disc_code) ==
    LET bad == SelectSeq(codes, LAMBDA c : ~Has(catalog, c))
    IN  IF bad = <<>> THEN <<>> ELSE <<Err(kind, bad[1], disc_code)>>

\* Lines 39-41 and 43-45: one error for each listed code not in the catalog.
CodeErrors(kind, codes, catalog, disc_code) ==
    LET bad == SelectSeq(codes, LAMBDA c : ~Has(catalog, c))
    IN  [i \in 1..Len(bad) |-> Err(kind, bad[i], disc_code)]

\* Lines 35-45: the loop over mappings.items() from the i-th entry on.
RECURSIVE MappingErrors(_, _, _, _, _)
MappingErrors(mappings, i, disciplines, competencies, program_results) ==
    IF i > Len(mappings) THEN <<>>
    ELSE LET disc_code == mappings[i][1]
             mapping == mappings[i][2]
         IN  (IF ~Has(disciplines, disc_code)
              THEN <<Err("unknown_discipline", disc_code, disc_code)>>
              ELSE <<>>)
             \o CodeErrors("unknown_competency",
                           Get(mapping, "competencies", <<>>),
                           competencies, disc_code)
             \o CodeErrors("unknown_program_result",
                           Get(mapping, "program_results", <<>>),
                           program_results, disc_code)
             \o MappingErrors(mappings, i + 1, disciplines, competencies,
                              program_results)

\* Mutant: the mappings are not looked at once a catalog is missing.
Checked_ShortCircuit(structure_errors, mappings) ==
    IF structure_errors # <<>> THEN <<>> ELSE mappings

\* Lines 27-35: the three tests are plain ifs with no return, the loop runs
\* over all the mappings whatever they found.
Checked(structure_errors, mappings) == mappings

\* Mutant: every discipline of the catalog counts as unfilled.
UnfilledCount_Catalog(disciplines, mappings) == Len(disciplines)

\* Line 48: unfilled_count = len(disciplines) - len(mappings)
UnfilledCount(disciplines, mappings) == Len(disciplines) - Len(mappings)

\* Lines 49-50: the one aggregated warning.
Warnings(unfilled_count) ==
    IF unfilled_count > 0
    THEN <<[kind |-> "unfilled", count |-> unfilled_count]>>
    ELSE <<>>

\* validate_data on a file that loads (lines 18-68).
ValidateData ==
    /\ config # NoConfig
    /\ LET disciplines == Get(config, "disciplines", <<>>)
           competencies == Get(config, "competencies", <<>>)
           program_results == Get(config, "program_results", <<>>)
           mappings == Get(config, "mappings", <<>>)
           structure == StructureErrors(disciplines, competencies,
                                        program_results)
           errors == structure
                     \o MappingErrors(Checked(structure, mappings), 1,
                                      disciplines, competencies,
                                      program_results)
           warnings == Warnings(UnfilledCount(disciplines, mappings))
       IN  validation' = [errors |-> errors, warnings |-> warnings,
                          valid |-> Len(errors) = 0]
    /\ UNCHANGED <<config, workbook, html_report, statistics>>
    /\ UNCHANGED <<engineVars, directVars, batchVars, rewriteVars, toolVars>>

----------------------------------------------------------------------------
(* show_statistics (core/statistics.py).                                   *)

\* Lines 8-24: the general figures, or the KeyError of a missing catalog.
ShowStatistics ==
    /\ config # NoConfig
    /\ statistics' =
          IF Missing(config, {"disciplines", "competencies", "program_results"})
          THEN Thrown("KeyError")
          ELSE LET mappings == Get(config, "mappings", <<>>)
               IN  [disciplines |-> Len(config.disciplines),
                    competencies |-> Len(config.competencies),
                    program_results |-> Len(config.program_results),
                    filled |-> Len(mappings),
                    unfilled |-> Len(config.disciplines) - Len(mappings)]
    /\ UNCHANGED <<config, validation, workbook, html_report>>
    /\ UNCHANGED <<engineVars, directVars, batchVars, rewriteVars, toolVars>>

----------------------------------------------------------------------------
(* generate_matrices_from_yaml (matrix.py).                                *)

\* pd.DataFrame("", index=..., columns=...)
EmptyFrame(index_codes, columns) ==
    [index |-> index_codes, columns |-> columns,
     cells |-> [rc \in Range(index_codes) \X Range(columns) |-> ""]]

\* Mutant: the mark goes into the whole row.
Marked_WholeRow(df, code, column) ==
    [df EXCEPT !.cells = [rc \in DOMAIN @ |-> IF rc[1] = code THEN "+" ELSE @[rc]]]

\* Lines 44 and 49: df.at[code, discipline_code] = "+"
Marked(df, code, column) == [df EXCEPT !.cells[<<code, column>>] = "+"]

\* Lines 42-44 and 47-49: the loop over the listed codes from the k-th on.
RECURSIVE MarkCodes(_, _, _, _)
MarkCodes(df, codes, k, column) ==
    IF k > Len(codes) THEN df
    ELSE MarkCodes(IF Has(df.index, codes[k])
                   THEN Marked(df, codes[k], column) ELSE df,
                   codes, k + 1, column)

\* Lines 39-49: the loop over mappings.items() from the i-th entry on, for
\* the list named by field.
RECURSIVE Filled(_, _, _, _, _)
Filled(df, mappings, i, disciplines, field) ==
    IF i > Len(mappings) THEN df
    ELSE LET discipline_code == mappings[i][1]
             mapping == mappings[i][2]
         IN  Filled(IF Has(disciplines, discipline_code)
                    THEN MarkCodes(df, Get(mapping, field, <<>>), 1,
                                   discipline_code)
                    ELSE df,
                    mappings, i + 1, disciplines, field)

\* ", ".join(codes) if codes else ""
RECURSIVE Joined(_)
Joined(codes) ==
    IF codes = <<>> THEN <<>>
    ELSE IF Len(codes) = 1 THEN codes
    ELSE <<codes[1], ", ">> \o Joined(Tail(codes))

\* Lines 72-86: the row of one discipline.
SummaryRow(disc_code, mappings) ==
    LET mapping == MappingGet(mappings, disc_code)
        comps == Get(mapping, "competencies", <<>>)
        progs == Get(mapping, "program_results", <<>>)
    IN  [code |-> disc_code,
         competencies |-> Joined(comps),
         program_results |-> Joined(progs),
         n_competencies |-> Len(comps),
         n_program_results |-> Len(progs)]

\* Mutant: only the disciplines that have a mapping get a row.
SummaryRows_FilledOnly(disciplines, mappings) ==
    LET filled == SelectSeq(disciplines, LAMBDA code : HasKey(mappings, code))
    IN  [i \in 1..Len(filled) |-> SummaryRow(filled[i], mappings)]

\* Lines 71-86: summary_data, one row for each item of disciplines.
SummaryRows(disciplines, mappings) ==
    [i \in 1..Len(disciplines) |-> SummaryRow(disciplines[i], mappings)]

\* The three sheets.
Sheets(disciplines, competencies, program_results, mappings) ==
    [comp_df |-> Filled(EmptyFrame(competencies, disciplines), mappings, 1,
                        disciplines, "competencies"),
     prog_df |-> Filled(EmptyFrame(program_results, disciplines), mappings, 1,
                        disciplines, "program_results"),
     summary |-> SummaryRows(disciplines, mappings)]

\* generate_matrices_from_yaml (lines 18-89). A missing section raises
\* KeyError at lines 23-26. With no discipline at all the column headers
\* of lines 52-60 are built from an empty list, which the library either
\* accepts or refuses.
GenerateMatrices ==
    /\ config # NoConfig
    /\ IF Missing(config, {"disciplines", "competencies", "program_results",
                           "mappings"})
       THEN workbook' = Thrown("KeyError")
       ELSE \/ workbook' = Sheets(config.disciplines, config.competencies,
                                  config.program_results, config.mappings)
            \/ /\ config.disciplines = <<>>
               /\ workbook' = Thrown("TypeError")
    /\ UNCHANGED <<config, validation, html_report, statistics>>
    /\ UNCHANGED <<engineVars, directVars, batchVars, rewriteVars, toolVars>>

----------------------------------------------------------------------------
(* generate_html_report (matrix.py).                                       *)

\* Lines 367-368 and 389-390: has_mapping
HasMapping(mappings, disc_code, code, field) ==
    /\ HasKey(mappings, disc_code)
    /\ Has(Get(MappingGet(mappings, disc_code), field, <<>>), code)

\* Lines 364-372 and 386-394: the rows of a table.
Table(catalog, disciplines, mappings, field) ==
    [index |-> catalog, columns |-> disciplines,
     cells |-> [rc \in Range(catalog) \X Range(disciplines) |->
                   IF HasMapping(mappings, rc[2], rc[1], field)
                   THEN "+" ELSE ""]]

\* Line 337: unfilled_disciplines
UnfilledDisciplines(disciplines, mappings) ==
    SelectSeq(disciplines, LAMBDA code : ~HasKey(mappings, code))

\* generate_html_report (lines 211-394): the statistics block and the two
\* tables, or the KeyError of a missing catalog (lines 215-217).
GenerateHtmlReport ==
    /\ config # NoConfig
    /\ html_report' =
          IF Missing(config, {"disciplines", "competencies", "program_results"})
          THEN Thrown("KeyError")
          ELSE LET mappings == Get(config, "mappings", <<>>)
               IN  [comp |-> Table(config.competencies, config.disciplines,
                                   mappings, "competencies"),
                    prog |-> Table(config.program_results, config.disciplines,
                                   mappings, "program_results"),
                    filled |-> Len(mappings),
                    unfilled |-> Len(UnfilledDisciplines(config.disciplines,
                                                         mappings))]
    /\ UNCHANGED <<config, validation, workbook, statistics>>
    /\ UNCHANGED <<engineVars, directVars, batchVars, rewriteVars, toolVars>>

----------------------------------------------------------------------------
(* main() of create_discipline_page.py: the actions of one command line.   *)

NoCli == [absent |-> TRUE]
NoLoaded == [absent |-> TRUE]

\* args.discipline when -d is not given (None).
NoArg == <<"None">>

\* Mutant: only None is falsy.
Truthy_NotNone(value) == value # NoArg

\* Truth value of args.discipline: None and '' are falsy.
Truthy(value) == value # NoArg /\ value # <<>>

\* Mutant: upload comes before the generators, parse_index before index.
CliActions_UploadFirst ==
    <<"clean", "upload", "discipline", "all", "parse_index", "index",
      "upload_index">>

\* Lines 896-910: the keys of cli_actions in the order of the dict.
CliActions ==
    <<"clean", "discipline", "all", "upload", "index", "parse_index",
      "upload_index">>

\* Line 915: getattr(args, action_name, False)
Requested(args, action_name) ==
    IF action_name = "discipline" THEN Truthy(args.discipline)
    ELSE action_name \in args.flags

\* Lines 914-917: the next key of cli_actions whose flag is set, 0 if none.
NextAt(c) ==
    LET later == {k \in (c.at + 1)..Len(CliActions) :
                     Requested(c.args, CliActions[k])}
    IN  IF later = {} THEN 0
        ELSE CHOOSE k \in later : \A j \in later : k <= j

\* main() calls one action; the others wait for it to return.
Turn(action_name) ==
    /\ cli # NoCli
    /\ cli.status = "running"
    /\ bpc \in {"idle", "done"}
    /\ pc = "idle"
    /\ NextAt(cli) # 0
    /\ CliActions[NextAt(cli)] = action_name

Called(action_name) ==
    [cli EXCEPT !.at = NextAt(cli), !.log = Append(@, action_name)]

\* create_output_directory: the directory exists afterwards.
Made(d) == IF d = NoDir THEN {} ELSE d

\* lecturers.yaml
Lecturers == (7 :> [name |-> <<"L">>])

\* Lines 136-140 and 353-357: all_disciplines is data["disciplines"]
\* itself, and update() writes the elective entries into it.
MergedByUpdate(data) ==
    IF "elevative_disciplines" \in DOMAIN data
    THEN [data EXCEPT !.disciplines = data.elevative_disciplines @@ @]
    ELSE data

\* Lines 149-151: the entry gains the record of its lecturer.
Expanded(discipline) ==
    IF "lecturer_id" \in DOMAIN discipline
    THEN ("lecturer" :> Get(Lecturers, discipline.lecturer_id, NoArg)) @@ discipline
    ELSE discipline

\* Lines 436-438 for an entry without subdisciplines.
WithTotals(discipline) ==
    ("total_credits" :> Get(discipline, "credits", 0))
        @@ ("all_controls" :> Get(discipline, "control", <<>>)) @@ discipline

\* The data object at the end of load_discipline_data(yaml_file, code): the
\* entry all_disciplines[code] is the object the elective catalog holds
\* when the code is elective.
LoadDisciplineData(yaml_file, discipline_code) ==
    LET data == MergedByUpdate(Data(yaml_file))
        found == discipline_code \in DOMAIN data.disciplines
        discipline == Expanded(data.disciplines[discipline_code])
        elective == Get(data, "elevative_disciplines", <<>>)
        after == [data EXCEPT !.disciplines[discipline_code] = discipline]
    IN  [by |-> "load_discipline_data",
         found |-> found,
         data |-> IF ~found THEN data
                  ELSE IF discipline_code \in DOMAIN elective
                  THEN [after EXCEPT !.elevative_disciplines[discipline_code] =
                                         discipline]
                  ELSE after,
         view |-> IF found THEN after.disciplines ELSE data.disciplines]

\* The data object at the end of generate_index_page: the merged dict is
\* new (line 463), its entries are the objects of the two catalogs, and
\* prepare_disciplines_with_totals writes into each of them.
IndexData(yaml_file) ==
    LET data == Data(yaml_file)
        elective == Get(data, "elevative_disciplines", <<>>)
        primary == Get(data, "disciplines", <<>>)
        view == [c \in DOMAIN (elective @@ primary) |->
                     WithTotals((elective @@ primary)[c])]
        with_primary ==
            [data EXCEPT !.disciplines =
                [c \in DOMAIN primary |->
                    IF c \in DOMAIN elective THEN primary[c] ELSE view[c]]]
    IN  [by |-> "generate_index_page",
         found |-> TRUE,
         data |-> IF "elevative_disciplines" \in DOMAIN data
                  THEN [with_primary EXCEPT !.elevative_disciplines =
                            [c \in DOMAIN elective |-> view[c]]]
                  ELSE with_primary,
         view |-> view]

\* The order of the rows of the index: the keys of the merged dict.
CodeOrder == <<CodeA1, CodeA2, CodeZ1, CodeA1Slash2, CodeB1Underscore>>

RECURSIVE Rows(_, _)
\* index_template.html: one link per discipline, to the file of its page.
Rows(view, k) ==
    IF k > Len(CodeOrder) THEN <<>>
    ELSE (IF CodeOrder[k] \in DOMAIN view
          THEN Anchor(GetSafeFilename(CodeOrder[k]) \o Html)
          ELSE <<>>) \o Rows(view, k + 1)

IndexPage(view) == <<"I">> \o Rows(view, 1)

\* str(value) of a degree or a year, character by character.
Chars(text) ==
    CASE text = "bachelor" -> <<"b", "a", "c", "h", "e", "l", "o", "r">>
      [] text = "master" -> <<"m", "a", "s", "t", "e", "r">>
      [] text = "2023" -> <<"2", "0", "2", "3">>
      [] text = "2024" -> <<"2", "0", "2", "4">>
      [] text = "2025" -> <<"2", "0", "2", "5">>
      [] OTHER -> <<>>

\* Line 759: slugify(f"op_{degree}-{year}")
IndexSlug(yaml_data) ==
    Slugify(<<"o", "p", "_">> \o Chars(yaml_data.metadata.degree) \o <<"-">>
                \o Chars(yaml_data.metadata.year))

\* Lines 750-755: both keys are there, or the process exits.
HasIndexSlug(yaml_data) ==
    /\ "year" \in DOMAIN yaml_data.metadata
    /\ "degree" \in DOMAIN yaml_data.metadata

\* Line 774: the title of the index page.
IndexTitle(yaml_data) ==
    <<"O", "K", ":", " ">> \o Chars(Get(yaml_data.metadata, "degree", ""))
        \o <<" ">> \o Chars(Get(yaml_data.metadata, "year", ""))

NoUpload == [absent |-> TRUE]

\* main() up to the loop: the arguments are parsed and the dataset file
\* exists.
Started(args) ==
    [args |-> args, at |-> 0, log |-> <<>>, status |-> "running",
     before |-> [registry |-> registry, index |-> index, dir |-> dir],
     generated |-> {}, upload_dir |-> NoDir, sent |-> 0, uploaded |-> NoUpload]

\* 'clean': clean_output_directory() removes disciplines/ with all it holds.
MainClean ==
    /\ Turn("clean")
    /\ cli' = Called("clean")
    /\ dir' = NoDir
    /\ index' = NoIndex
    /\ UNCHANGED <<registry, bpc, run, todo, cur, wp_links, nruns, trail>>
    /\ UNCHANGED <<report, nparses, parsed>>
    /\ UNCHANGED <<loaded, peer, fill>>
    /\ UNCHANGED <<engineVars, directVars, matrixVars>>

\* 'discipline': handle_single_discipline writes the page of one code, if
\* the dataset lists it.
MainDiscipline ==
    /\ Turn("discipline")
    /\ LET got == LoadDisciplineData(cli.args.yaml_file, cli.args.discipline)
           safe_name == GetSafeFilename(cli.args.discipline)
       IN  /\ loaded' = got
           /\ dir' = IF got.found THEN Made(dir) \cup {safe_name} ELSE Made(dir)
           /\ cli' = [Called("discipline") EXCEPT !.generated =
                          IF got.found THEN @ \cup {safe_name} ELSE @]
    /\ UNCHANGED <<registry, bpc, run, todo, cur, wp_links, nruns, trail>>
    /\ UNCHANGED rewriteVars
    /\ UNCHANGED <<peer, fill>>
    /\ UNCHANGED <<engineVars, directVars, matrixVars>>

\* 'all': handle_all_disciplines removes the directory again under --clean
\* and writes one page per code of the merged catalog.
MainAll ==
    /\ Turn("all")
    /\ LET data == MergedByUpdate(Data(cli.args.yaml_file))
           pages == {GetSafeFilename(c) : c \in DOMAIN data.disciplines}
           clean == "clean" \in cli.args.flags
       IN  /\ loaded' = [by |-> "generate_all_disciplines", found |-> TRUE,
                         data |-> data, view |-> data.disciplines]
           /\ dir' = (IF clean THEN {} ELSE Made(dir)) \cup pages
           /\ index' = IF clean THEN NoIndex ELSE index
           /\ cli' = [Called("all") EXCEPT !.generated =
                          (IF clean THEN {} ELSE @) \cup pages]
    /\ UNCHANGED <<registry, bpc, run, todo, cur, wp_links, nruns, trail>>
    /\ UNCHANGED <<report, nparses, parsed>>
    /\ UNCHANGED <<peer, fill>>
    /\ UNCHANGED <<engineVars, directVars, matrixVars>>

\* 'upload': handle_upload with save_yaml = not args.discipline. Without
\* the key page_id get_parent_id ends the process.
MainUpload ==
    /\ Turn("upload")
    /\ HandleUploadOf(cli.args.yaml_file, ~Truthy(cli.args.discipline))
    /\ LET yaml_data == Data(cli.args.yaml_file)
       IN  IF dir = NoDir
           THEN /\ cli' = Called("upload")
                /\ UNCHANGED loaded
           ELSE IF ~HasParentId(yaml_data)
           THEN /\ cli' = [Called("upload") EXCEPT !.status = "exited",
                                                   !.upload_dir = dir]
                /\ UNCHANGED loaded
           ELSE /\ cli' = [Called("upload") EXCEPT !.upload_dir = dir]
                /\ loaded' = [by |-> "upload_html_files", found |-> TRUE,
                              data |-> yaml_data,
                              view |-> AllDisciplines(yaml_data)]
    /\ UNCHANGED rewriteVars
    /\ UNCHANGED <<peer, fill>>
    /\ UNCHANGED matrixVars

\* 'index': handle_index_generation writes disciplines/index.html.
MainIndex ==
    /\ Turn("index")
    /\ LET got == IndexData(cli.args.yaml_file)
       IN  /\ loaded' = got
           /\ index' = IndexPage(got.view)
           /\ dir' = Made(dir) \cup {IndexStem}
    /\ cli' = Called("index")
    /\ UNCHANGED <<registry, bpc, run, todo, cur, wp_links, nruns, trail>>
    /\ UNCHANGED <<report, nparses, parsed>>
    /\ UNCHANGED <<peer, fill>>
    /\ UNCHANGED <<engineVars, directVars, matrixVars>>

\* 'parse_index': handle_parse_index passes the dataset file of the command
\* line. An exception parse_index_links lets through ends the process.
MainParseIndex ==
    /\ Turn("parse_index")
    /\ ParseIndexLinksOf(cli.args.yaml_file)
    /\ nparses' = nparses + 1
    /\ cli' = [Called("parse_index") EXCEPT !.status =
                   IF report' \in {"raised", "type_error"} THEN "crashed" ELSE @]
    /\ UNCHANGED <<loaded, peer, fill>>
    /\ UNCHANGED <<engineVars, directVars, batchVars, matrixVars>>

\* 'upload_index': handle_upload_index and upload_index_page up to the
\* return of the request of update_wordpress_page.
MainUploadIndex ==
    /\ Turn("upload_index")
    /\ LET yaml_data == Data(cli.args.yaml_file)
           page_id == Get(yaml_data.metadata, "page_id", NoId)
       IN  IF index = NoIndex \/ page_id = NoId
           THEN /\ cli' = Called("upload_index")
                /\ UNCHANGED engineVars
           ELSE IF ~HasIndexSlug(yaml_data)
           THEN /\ cli' = [Called("upload_index") EXCEPT !.status = "exited"]
                /\ UNCHANGED engineVars
           ELSE /\ Publish(index, page_id, IndexSlug(yaml_data),
                           [title |-> IndexTitle(yaml_data),
                            slug |-> IndexSlug(yaml_data),
                            parent |-> 16, status |-> "publish"],
                           "index")
                /\ cli' = [Called("upload_index") EXCEPT !.sent = @ + 1]
    /\ UNCHANGED <<loaded, peer, fill>>
    /\ UNCHANGED <<directVars, batchVars, rewriteVars, matrixVars>>

\* Lines 788-793: the result of the index upload is printed.
MainIndexReturn ==
    /\ pc = "done"
    /\ caller = "index"
    /\ Returned
    /\ cli' = [cli EXCEPT !.uploaded =
                   [content |-> call.content, page_id |-> call.page_id,
                    success |-> result.success, link |-> result.link]]
    /\ UNCHANGED <<loaded, peer, fill>>
    /\ UNCHANGED <<directVars, batchVars, rewriteVars, matrixVars>>

\* Lines 919-921: the loop is over; the usage is printed if nothing ran.
MainEnd ==
    /\ cli # NoCli
    /\ cli.status = "running"
    /\ bpc \in {"idle", "done"}
    /\ pc = "idle"
    /\ NextAt(cli) = 0
    /\ cli' = [cli EXCEPT !.status = IF cli.log = <<>> THEN "usage" ELSE "done"]
    /\ UNCHANGED <<loaded, peer, fill>>
    /\ UNCHANGED <<engineVars, directVars, batchVars, rewriteVars, matrixVars>>

----------------------------------------------------------------------------
(* Cancellation: the process is ended (Ctrl-C, kill) while upload_html_files *)
(* is in its loop, between two requests or before the registry is saved.    *)

\* Nothing catches KeyboardInterrupt or handles a signal (the handlers at
\* wp_uploader.py:81-83 are for Exception): the process ends where it is,
\* and neither the rest of the loop (lines 644-677) nor save_wp_links_yaml
\* (line 745) runs.
Aborted(files, output_file, wp_data) == files

\* The process dies during a run: its locals are gone, the remote and the
\* files are as they are.
Abort ==
    /\ bpc \in {"loop", "wait"}
    /\ ~trail.cancelled.happened
    /\ bpc' = "idle"
    /\ todo' = {}
    /\ cur' = <<>>
    /\ wp_links' = <<>>
    /\ Returned
    /\ registry' = Aborted(registry, RegistryFile(run.yaml_file),
                           WpData(Data(run.yaml_file), wp_links))
    /\ trail' = [trail EXCEPT !.cancelled =
                      [happened |-> TRUE, run |-> nruns,
                       yaml_file |-> run.yaml_file, files |-> run.files,
                       remote |-> remote, registry |-> registry',
                       before |-> trail.before,
                       published |-> DOMAIN wp_links]]
    /\ UNCHANGED <<dir, run, nruns>>
    /\ UNCHANGED directVars

\* Publish runs of the command line without -d, for two datasets.
CancelRun ==
    /\ nruns < MaxRuns
    /\ \E yaml_file \in {YamlBachelor, YamlMaster} :
          HandleUploadOf(yaml_file, TRUE)

----------------------------------------------------------------------------
(* Two update_wordpress_page calls at the same time: the call of the        *)
(* engine variables and a second one, whose locals are the record peer.    *)
(* Both publish the page of A 01 by its slug, as upload_html_files does.   *)

NoPeer == [absent |-> TRUE]

\* The second call has not begun. overlap notes that one of the two calls
\* began while the other was between its lookup and its last request.
PeerIdle ==
    [pc |-> "idle", post_data |-> NoData, found_page_id |-> NoId,
     result |-> NoResult, overlap |-> FALSE]

\* A call stands between its slug lookup and the request that follows it.
InFlight(at) == at \in {"update", "create"}

RaceFields == PageFields(Title(CodeA1, NameX), SlugA1, 10)

\* update_wordpress_page(content, slug=slug, data=...) in the process of
\* the engine variables.
RaceCall ==
    /\ ncalls < MaxCalls
    /\ ncalls' = ncalls + 1
    /\ \E content \in Contents : Publish(content, NoId, SlugA1, RaceFields, "race")
    /\ peer' = [peer EXCEPT !.overlap = @ \/ InFlight(peer.pc)]
    /\ UNCHANGED <<snap, prev>>
    /\ UNCHANGED <<batchVars, rewriteVars, matrixVars, cli, loaded, fill>>

RaceReturn ==
    /\ pc = "done"
    /\ caller = "race"
    /\ Returned
    /\ UNCHANGED <<directVars, batchVars, rewriteVars, matrixVars, toolVars>>

\* The second call from its entry to the return of its slug lookup (lines
\* 24-31 and 47-57).
PeerLookup ==
    /\ peer.pc = "idle"
    /\ \E content \in Contents :
       \E resp \in {Answered(200, PagesWithSlug(remote, SlugA1, 1)), Garbled(200),
                    Failed(500), Raised} :
          LET ok == resp.status = 200 /\ resp.exc = "none"
          IN  peer' = [pc |-> IF ok
                             THEN IF ExistingPage(resp.pages) THEN "update"
                                  ELSE "create"
                             ELSE EndOf(resp),
                       post_data |-> PostData(content, RaceFields),
                       found_page_id |-> IF ok /\ ExistingPage(resp.pages)
                                         THEN FoundPageId(resp.pages) ELSE NoId,
                       result |-> IF ok THEN NoResult ELSE LookupFailure(resp),
                       overlap |-> peer.overlap \/ InFlight(pc)]
    /\ UNCHANGED <<engineVars, directVars, batchVars, rewriteVars, matrixVars,
                   cli, loaded, fill>>

\* The second call's update of the page its lookup found (lines 58-67).
PeerUpdateFound ==
    /\ peer.pc = "update"
    /\ \E resp \in {Answered(200, <<>>), Garbled(200), Failed(404), Failed(500),
                    Raised} :
       \E applied \in BOOLEAN :
          /\ resp.status = 200 => applied /\ peer.found_page_id \in 1..Len(remote)
          /\ resp.status \in ErrCodes => ~applied
          /\ peer.found_page_id \notin 1..Len(remote) => ~applied
          /\ remote' = IF applied
                       THEN Updated(remote, peer.found_page_id, peer.post_data)
                       ELSE remote
          /\ peer' = [peer EXCEPT
                         !.pc = EndOf(resp),
                         !.result = UpdateResult(peer.found_page_id, resp,
                                                 "updated_existing")]
    /\ UNCHANGED <<pc, call, post_data, found_page_id, reqs, result, caller>>
    /\ UNCHANGED <<directVars, batchVars, rewriteVars, matrixVars, cli, loaded, fill>>

\* The second call's creation of the page its lookup did not find (lines
\* 69-76).
PeerCreate ==
    /\ peer.pc = "create"
    /\ \E resp \in {Answered(201, <<>>), Garbled(201), Failed(500), Raised} :
       \E applied \in BOOLEAN :
          /\ resp.status = 201 => applied
          /\ resp.status \in ErrCodes => ~applied
          /\ remote' = IF applied THEN Created(remote, peer.post_data) ELSE remote
          /\ peer' = [peer EXCEPT
                         !.pc = EndOf(resp),
                         !.result = CreateResult(Len(remote) + 1, resp)]
    /\ UNCHANGED <<pc, call, post_data, found_page_id, reqs, result, caller>>
    /\ UNCHANGED <<directVars, batchVars, rewriteVars, matrixVars, cli, loaded, fill>>

----------------------------------------------------------------------------
(* interactive_fill_mappings (interactive/filling.py). The dataset file is *)
(* the variable config; the dict the function holds is fill.config.        *)

NoFill == [absent |-> TRUE]

MaxFills == 2

\* What the user types at a prompt for codes: nothing, numbers of the
\* list, a number twice, spaces, numbers off the list (0 and 3), text.
CompInputs ==
    { <<>>, <<"1">>, <<"2", ",", " ", "1">>, <<"1", ",", "1">>, <<" ">>,
      <<"3">>, <<"0">>, <<"x">>, <<"1", ",", "x">>, <<"1", ",">> }
ProgInputs == { <<>>, <<"1">>, <<"2">>, <<"-", "1">>, <<"x">> }

\* What the user types when asked whether to go on.
ContInputs == { <<>>, <<"q">>, <<" ", "Q">>, <<"x">> }

\* str.split(","): the pieces between the commas.
RECURSIVE Split(_)
Split(text) ==
    LET cs == {k \in 1..Len(text) : text[k] = ","}
    IN  IF cs = {} THEN <<text>>
        ELSE <<SubSeq(text, 1, First(cs) - 1)>>
                 \o Split(SubSeq(text, First(cs) + 1, Len(text)))

\* int(x) accepts an optional sign and decimal digits.
IsInt(x) ==
    LET body == IF x # <<>> /\ x[1] \in {"-", "+"} THEN Tail(x) ELSE x
    IN  body # <<>> /\ \A k \in 1..Len(body) : body[k] \in Digits

DigitValue(ch) == CHOOSE d \in 0..9 : DigitChars[d + 1] = ch

RECURSIVE Magnitude(_)
Magnitude(body) ==
    IF body = <<>> THEN 0
    ELSE 10 * Magnitude(SubSeq(body, 1, Len(body) - 1))
         + DigitValue(body[Len(body)])

IntOf(x) ==
    IF x[1] = "-" THEN 0 - Magnitude(Tail(x))
    ELSE IF x[1] = "+" THEN Magnitude(Tail(x))
    ELSE Magnitude(x)

\* Lines 41-44: the codes at the indices that are on the list, in the
\* order typed.
RECURSIVE Picked(_, _)
Picked(code_list, indices) ==
    IF indices = <<>> THEN <<>>
    ELSE (IF 0 <= Head(indices) /\ Head(indices) < Len(code_list)
          THEN <<code_list[Head(indices) + 1]>> ELSE <<>>)
         \o Picked(code_list, Tail(indices))

\* Lines 36-47 (and 59-70): the selection a typed line amounts to. A piece
\* that is no integer makes int() raise, the bare except keeps the empty
\* selection.
Selected(code_list, typed) ==
    LET text == Strip(typed)
        pieces == Split(text)
    IN  IF text = <<>> THEN <<>>
        ELSE IF \E k \in 1..Len(pieces) : ~IsInt(Strip(pieces[k])) THEN <<>>
        ELSE Picked(code_list,
                    [k \in 1..Len(pieces) |-> IntOf(Strip(pieces[k])) - 1])

\* Mutant: every discipline of the catalog is asked about.
UnfilledCodes_Everything(disciplines, mappings) == disciplines

\* Line 15: [code for code in disciplines.keys() if code not in mappings]
UnfilledCodes(disciplines, mappings) ==
    SelectSeq(disciplines, LAMBDA code : ~HasKey(mappings, code))

\* mappings[key] = entry: the entry of a key the dict has is replaced in
\* place, a new key goes to the end.
SetEntry(mappings, key, entry) ==
    IF HasKey(mappings, key)
    THEN [k \in 1..Len(mappings) |->
             IF mappings[k][1] = key THEN <<key, entry>> ELSE mappings[k]]
    ELSE Append(mappings, <<key, entry>>)

\* config[key] = value
SetKey(cfg, key, value) == (key :> value) @@ cfg

\* No session yet; before is the dataset file as it was.
FillIdle(file) ==
    [pc |-> "idle", n |-> 0, before |-> file, config |-> NoConfig,
     unfilled |-> <<>>, i |-> 0, typed |-> <<>>, writes |-> 0]

\* Lines 6-22: the file is loaded and the unfilled disciplines are listed.
\* config[key] raises KeyError for a catalog the file does not have.
FillStart ==
    /\ fill.pc \in {"idle", "done", "raised"}
    /\ fill.n < MaxFills
    /\ LET unfilled == UnfilledCodes(config.disciplines,
                                Get(config, "mappings", <<>>))
           begun == [fill EXCEPT !.n = @ + 1, !.config = config, !.typed = <<>>,
                                 !.unfilled = <<>>, !.i = 0, !.writes = 0]
       IN  IF Missing(config, {"disciplines", "competencies", "program_results"})
           THEN fill' = [begun EXCEPT !.pc = "raised"]
           ELSE IF unfilled = <<>>
           THEN fill' = [begun EXCEPT !.pc = "done"]
           ELSE fill' = [begun EXCEPT !.pc = "prompt", !.unfilled = unfilled,
                                      !.i = 1]
    /\ UNCHANGED <<engineVars, directVars, batchVars, rewriteVars, matrixVars,
                   cli, loaded, peer>>

\* Lines 24-90: the two prompts of a discipline are answered, its entry is
\* put into mappings and the whole dict is written to the file.
FillAnswer ==
    /\ fill.pc = "prompt"
    /\ \E comp_input \in CompInputs, prog_input \in ProgInputs :
       LET disc_code == fill.unfilled[fill.i]
           selected_comps == Selected(fill.config.competencies, comp_input)
           selected_progs == Selected(fill.config.program_results, prog_input)
           mappings == SetEntry(Get(fill.config, "mappings", <<>>), disc_code,
                                MapEntry(selected_comps, selected_progs))
           saved == SetKey(fill.config, "mappings", mappings)
       IN  /\ config' = saved
           /\ fill' = [fill EXCEPT
                         !.config = saved,
                         !.typed = <<comp_input, prog_input>>,
                         !.writes = @ + 1,
                         !.pc = IF fill.i < Len(fill.unfilled) THEN "continue"
                                ELSE "done"]
    /\ UNCHANGED <<validation, workbook, html_report, statistics>>
    /\ UNCHANGED <<engineVars, directVars, batchVars, rewriteVars, cli, loaded, peer>>

\* Lines 93-96: asked whether to go on; "q" in any case ends the loop.
FillContinue ==
    /\ fill.pc = "continue"
    /\ \E cont \in ContInputs :
          fill' = [fill EXCEPT
                      !.pc = IF LowerSeq(Strip(cont)) = <<"q">> THEN "done"
                             ELSE "prompt",
                      !.i = IF LowerSeq(Strip(cont)) = <<"q">> THEN @ ELSE @ + 1]
    /\ UNCHANGED <<engineVars, directVars, batchVars, rewriteVars, matrixVars,
                   cli, loaded, peer>>

\* input() raises (end of input, Ctrl-C) at any of the prompts: the
\* function is left with what it has saved so far.
FillInterrupt ==
    /\ fill.pc \in {"prompt", "continue"}
    /\ fill' = [fill EXCEPT !.pc = "raised"]
    /\ UNCHANGED <<engineVars, directVars, batchVars, rewriteVars, matrixVars,
                   cli, loaded, peer>>

----------------------------------------------------------------------------
(* Specifications.                                                         *)

InitEngine ==
    /\ remote \in InitRemotes
    /\ pc = "idle"
    /\ call = NoCall
    /\ post_data = NoData
    /\ found_page_id = NoId
    /\ reqs = <<>>
    /\ result = NoResult
    /\ caller = "none"
    /\ snap = <<>>
    /\ ncalls = 0
    /\ prev = NoPrev

InitBatch ==
    /\ registry = [f \in RegistryFiles |-> NoFile]
    /\ bpc = "idle"
    /\ run = NoRun
    /\ todo = {}
    /\ cur = <<>>
    /\ wp_links = <<>>
    /\ nruns = 0
    /\ trail = NoTrail

\* No index document.
InitNoIndex ==
    /\ index = NoIndex
    /\ report = "none"
    /\ nparses = 0
    /\ parsed = NoParse

\* No dataset loaded by the matrix tools.
InitNoConfig ==
    /\ config = NoConfig
    /\ validation = NoOutput
    /\ workbook = NoOutput
    /\ html_report = NoOutput
    /\ statistics = NoOutput

\* No command line, no second call, no filling session.
InitNoTools ==
    /\ cli = NoCli
    /\ loaded = NoLoaded
    /\ peer = NoPeer
    /\ fill = NoFill

Init ==
    /\ InitEngine
    /\ InitBatch
    /\ InitNoIndex
    /\ InitNoConfig
    /\ InitNoTools
    /\ dir \in DirChoices

\* Callers of update_wordpress_page with any arguments.
NextPublish ==
    \/ DirectCall /\ UNCHANGED <<rewriteVars, matrixVars, toolVars>>
    \/ PublishUpdateFound /\ UNCHANGED <<directVars, batchVars, rewriteVars, matrixVars, toolVars>>
    \/ PublishCreate /\ UNCHANGED <<directVars, batchVars, rewriteVars, matrixVars, toolVars>>
    \/ DirectReturn /\ UNCHANGED <<rewriteVars, matrixVars, toolVars>>

\* No directory is involved.
InitPublish == Init /\ dir = NoDir

SpecPublish == InitPublish /\ [][NextPublish]_vars

\* Runs of handle_upload, one after the other.
Next ==
    \/ HandleUpload /\ UNCHANGED <<rewriteVars, matrixVars, toolVars>>
    \/ UploadFile /\ UNCHANGED <<rewriteVars, matrixVars, toolVars>>
    \/ PublishUpdateFound /\ UNCHANGED <<directVars, batchVars, rewriteVars, matrixVars, toolVars>>
    \/ PublishCreate /\ UNCHANGED <<directVars, batchVars, rewriteVars, matrixVars, toolVars>>
    \/ UploadCollect /\ UNCHANGED <<rewriteVars, matrixVars, toolVars>>
    \/ FinishUpload /\ UNCHANGED <<rewriteVars, matrixVars, toolVars>>

Spec == Init /\ [][Next]_vars

\* The index generated and the registry as earlier publish runs left it.
InitRewrite ==
    /\ InitEngine
    /\ remote = <<>>
    /\ dir = NoDir
    /\ registry \in RegistryChoices
    /\ bpc = "idle"
    /\ run = NoRun
    /\ todo = {}
    /\ cur = <<>>
    /\ wp_links = <<>>
    /\ nruns = 0
    /\ trail = NoTrail
    /\ index \in IndexChoices
    /\ report = "none"
    /\ nparses = 0
    /\ parsed = NoParse
    /\ InitNoConfig
    /\ InitNoTools

\* Runs of parse_index_links, one after the other.
NextRewrite ==
    \/ ParseIndexLinks

SpecRewrite == InitRewrite /\ [][NextRewrite]_vars

StemZ1 == <<"Z", "O", "_", "0", "1">>

\* The directory holds the index and the page of ZO 01; nothing is
\* published and no registry is written yet.
InitSync ==
    /\ InitEngine
    /\ remote = <<>>
    /\ InitBatch
    /\ dir = {IndexStem, StemZ1}
    /\ index = IndexFull
    /\ report = "none"
    /\ nparses = 0
    /\ parsed = NoParse
    /\ InitNoConfig
    /\ InitNoTools

\* Publish runs and rewrites of the index, in any order.
NextSync ==
    \/ HandleUpload /\ UNCHANGED <<rewriteVars, matrixVars, toolVars>>
    \/ UploadFile /\ UNCHANGED <<rewriteVars, matrixVars, toolVars>>
    \/ PublishUpdateFound /\ UNCHANGED <<directVars, batchVars, rewriteVars, matrixVars, toolVars>>
    \/ PublishCreate /\ UNCHANGED <<directVars, batchVars, rewriteVars, matrixVars, toolVars>>
    \/ UploadCollect /\ UNCHANGED <<rewriteVars, matrixVars, toolVars>>
    \/ FinishUpload /\ UNCHANGED <<rewriteVars, matrixVars, toolVars>>
    \/ ParseIndexLinks

SpecSync == InitSync /\ [][NextSync]_vars

\* A dataset file has been chosen; no tool has run yet.
InitMatrix ==
    /\ InitEngine
    /\ remote = <<>>
    /\ InitBatch
    /\ dir = NoDir
    /\ InitNoIndex
    /\ config \in ConfigChoices
    /\ validation = NoOutput
    /\ workbook = NoOutput
    /\ html_report = NoOutput
    /\ statistics = NoOutput
    /\ InitNoTools

\* The menu of the matrix tools: any tool, any number of times.
NextMatrix ==
    \/ ValidateData
    \/ ShowStatistics
    \/ GenerateMatrices
    \/ GenerateHtmlReport

SpecMatrix == InitMatrix /\ [][NextMatrix]_vars

\* The remote holds no page; neither call has begun.
InitRace ==
    /\ InitEngine
    /\ remote = <<>>
    /\ InitBatch
    /\ dir = NoDir
    /\ InitNoIndex
    /\ InitNoConfig
    /\ cli = NoCli
    /\ loaded = NoLoaded
    /\ peer = PeerIdle
    /\ fill = NoFill

\* Calls of the engine one after the other, and the second call's steps
\* at any time between them.
NextRace ==
    \/ RaceCall
    \/ PublishUpdateFound /\ UNCHANGED <<directVars, batchVars, rewriteVars, matrixVars, toolVars>>
    \/ PublishCreate /\ UNCHANGED <<directVars, batchVars, rewriteVars, matrixVars, toolVars>>
    \/ RaceReturn
    \/ PeerLookup
    \/ PeerUpdateFound
    \/ PeerCreate

SpecRace == InitRace /\ [][NextRace]_vars

\* The catalogs in one order or absent, every choice of mappings.
FillConfigs ==
    { c \in ConfigChoices :
        /\ Get(c, "disciplines", <<"A01", "A02">>) \in {<<"A01", "A02">>, <<"A02", "A01">>}
        /\ Get(c, "competencies", <<>>) \in {<<>>, <<"C1", "C2">>}
        /\ Get(c, "program_results", <<"P1">>) = <<"P1">> }

\* A dataset file has been chosen for filling.
InitFill ==
    /\ InitEngine
    /\ remote = <<>>
    /\ InitBatch
    /\ dir = NoDir
    /\ InitNoIndex
    /\ config \in FillConfigs
    /\ validation = NoOutput
    /\ workbook = NoOutput
    /\ html_report = NoOutput
    /\ statistics = NoOutput
    /\ cli = NoCli
    /\ loaded = NoLoaded
    /\ peer = NoPeer
    /\ fill = FillIdle(config)

\* Filling sessions, one after the other.
NextFill ==
    \/ FillStart
    \/ FillAnswer
    \/ FillContinue
    \/ FillInterrupt

SpecFill == InitFill /\ [][NextFill]_vars

\* The command lines tried: the flags are a set, whatever order they were
\* typed in.
FlagChoices ==
    { {}, {"clean"}, {"all", "upload"}, {"clean", "all", "upload"},
      {"upload"}, {"upload", "parse_index"},
      {"index", "parse_index", "upload_index"}, {"upload_index"},
      {"clean", "all", "upload", "index", "parse_index", "upload_index"} }

ArgsChoices ==
    { [yaml_file |-> y, flags |-> f, discipline |-> NoArg] :
          y \in DatasetFiles \ {YamlMaster}, f \in FlagChoices }
    \cup
    { [yaml_file |-> y, flags |-> f, discipline |-> d] :
          y \in {YamlBachelor, YamlBachelor23, YamlDraft},
          f \in {{}, {"upload"}},
          d \in {<<>>, CodeA1, CodeZ1} }

\* One command line: the directory is missing or holds pages and an index
\* of an earlier command, the registry is empty or holds the files of two
\* datasets, the remote holds one page.
InitMain ==
    /\ InitEngine
    /\ remote = <<OldPage(10)>>
    /\ \/ dir = NoDir /\ index = NoIndex
       \/ dir = {IndexStem, StemA1, StemB1} /\ index = IndexFull
    /\ registry \in
         { [f \in RegistryFiles |-> NoFile],
           Saved(Saved([f \in RegistryFiles |-> NoFile],
                       RegistryFile(YamlBachelor),
                       WpData(Data(YamlBachelor), LinksOf({CodeA1}))),
                 RegistryFile(YamlSlash),
                 WpData(Data(YamlSlash), LinksOf({CodeZ1}))) }
    /\ bpc = "idle"
    /\ run = NoRun
    /\ todo = {}
    /\ cur = <<>>
    /\ wp_links = <<>>
    /\ nruns = 0
    /\ trail = NoTrail
    /\ report = "none"
    /\ nparses = 0
    /\ parsed = NoParse
    /\ InitNoConfig
    /\ loaded = NoLoaded
    /\ peer = NoPeer
    /\ fill = NoFill
    /\ \E args \in ArgsChoices : cli = Started(args)

NextMain ==
    \/ MainClean
    \/ MainDiscipline
    \/ MainAll
    \/ MainUpload
    \/ UploadFile /\ UNCHANGED <<rewriteVars, matrixVars, toolVars>>
    \/ PublishUpdateFound /\ UNCHANGED <<directVars, batchVars, rewriteVars, matrixVars, toolVars>>
    \/ PublishCreate /\ UNCHANGED <<directVars, batchVars, rewriteVars, matrixVars, toolVars>>
    \/ UploadCollect /\ UNCHANGED <<rewriteVars, matrixVars, toolVars>>
    \/ FinishUpload /\ UNCHANGED <<rewriteVars, matrixVars, toolVars>>
    \/ MainIndex
    \/ MainParseIndex
    \/ MainUploadIndex
    \/ MainIndexReturn
    \/ MainEnd

SpecMain == InitMain /\ [][NextMain]_vars

\* The directory holds the pages of two disciplines and the index; the
\* remote holds no page or the page of A 01; the registry is empty.
InitCancel ==
    /\ InitEngine
    /\ remote \in {<<>>, <<OldPage(10)>>}
    /\ InitBatch
    /\ dir = {IndexStem, StemA1, StemA2}
    /\ InitNoIndex
    /\ InitNoConfig
    /\ InitNoTools

\* Publish runs one after the other, one of which may be cancelled.
NextCancel ==
    \/ CancelRun /\ UNCHANGED <<rewriteVars, matrixVars, toolVars>>
    \/ UploadFile /\ UNCHANGED <<rewriteVars, matrixVars, toolVars>>
    \/ PublishUpdateFound /\ UNCHANGED <<directVars, batchVars, rewriteVars, matrixVars, toolVars>>
    \/ PublishCreate /\ UNCHANGED <<directVars, batchVars, rewriteVars, matrixVars, toolVars>>
    \/ UploadCollect /\ UNCHANGED <<rewriteVars, matrixVars, toolVars>>
    \/ FinishUpload /\ UNCHANGED <<rewriteVars, matrixVars, toolVars>>
    \/ Abort /\ UNCHANGED <<rewriteVars, matrixVars, toolVars>>

SpecCancel == InitCancel /\ [][NextCancel]_vars

----------------------------------------------------------------------------
(* Properties of update_wordpress_page.                                    *)

\* The request got the success answer of its kind, with a readable body.
Succeeded(r) ==
    /\ r.resp.exc = "none"
    /\ r.resp.status = (IF r.kind = "create" THEN 201 ELSE 200)

AllSucceeded(log) == \A i \in 1..Len(log) : Succeeded(log[i])

Count(log, kinds) == Cardinality({i \in 1..Len(log) : log[i].kind \in kinds})

\* The finished call repeats the previous one: same content, no page id,
\* slug S, caller fields carrying slug S, on a remote that had no page with
\* slug S before the first of the two and answered every request
\* successfully.
RepeatedPublish ==
    /\ pc = "done"
    /\ ncalls >= 2
    /\ prev.call = call
    /\ call.page_id = NoId
    /\ call.slug # NoSlug
    /\ "slug" \in DOMAIN call.data
    /\ call.data.slug = call.slug
    /\ CountSlug(prev.snap, call.slug) = 0
    /\ AllSucceeded(prev.reqs)
    /\ AllSucceeded(reqs)

\* C1: publishing twice in sequence with the same content and slug, on a
\* remote that had no page with the slug and answers every request
\* successfully, leaves exactly one remote page with the slug; the first
\* call ends as created and the second as updated, never a second created.
C1_PublishIdempotent ==
    RepeatedPublish =>
        /\ CountSlug(remote, call.slug) = 1
        /\ prev.result.success /\ prev.result.message.kind = "created"
        /\ result.success /\ result.message.kind = "updated_existing"
        /\ Count(reqs, {"create"}) = 0

C1_Witness ==
    /\ RepeatedPublish
    /\ CountSlug(remote, call.slug) = 1
    /\ result.message.kind = "updated_existing"

\* A call by slug is under way or finished.
BySlug == pc # "idle" /\ call.page_id = NoId /\ call.slug # NoSlug

LookupAnswered == reqs[1].resp.status = 200 /\ reqs[1].resp.exc = "none"

\* C2: a call with a slug and no page id first queries the remote for that
\* slug; if the lookup returns at least one page it issues an update
\* against the found page's identifier and never a create, ending as
\* updated when the update succeeds; if the lookup returns no page it
\* issues exactly one create and no update, ending as created when the
\* create succeeds.
C2_SlugResolution ==
    BySlug =>
        /\ Len(reqs) >= 1
        /\ reqs[1].kind = "lookup" /\ reqs[1].slug = call.slug
        /\ Count(reqs, {"lookup"}) = 1
        /\ (LookupAnswered /\ reqs[1].resp.pages # <<>>) =>
              /\ Count(reqs, {"create"}) = 0
              /\ pc = "done" =>
                    /\ Len(reqs) = 2
                    /\ reqs[2].kind = "update"
                    /\ reqs[2].id = reqs[1].resp.pages[1]
                    /\ result.success => result.message.kind = "updated_existing"
        /\ (LookupAnswered /\ reqs[1].resp.pages = <<>>) =>
              /\ Count(reqs, {"update"}) = 0
              /\ pc = "done" =>
                    /\ Len(reqs) = 2
                    /\ reqs[2].kind = "create"
                    /\ result.success => result.message.kind = "created"

C2_Witness ==
    /\ BySlug
    /\ pc = "done"
    /\ Len(reqs[1].resp.pages) = 2
    /\ reqs[2].kind = "update"
    /\ result.success

\* C3: with a page id the call issues exactly one update request against
\* that id and no slug lookup and no create, even if a slug is supplied
\* too; with neither a page id nor a slug it returns failed ("need id or
\* slug") without issuing any remote request.
C3_ResolutionPrecedence ==
    /\ (pc # "idle" /\ call.page_id # NoId) =>
          /\ Len(reqs) = 1
          /\ reqs[1].kind = "update"
          /\ reqs[1].id = call.page_id
    /\ (pc # "idle" /\ call.page_id = NoId /\ call.slug = NoSlug) =>
          /\ pc = "done"
          /\ reqs = <<>>
          /\ remote = snap
          /\ ~result.success
          /\ result.message.kind = "need_id_or_slug"

C3_Witness ==
    /\ pc = "done"
    /\ call.page_id # NoId
    /\ call.slug # NoSlug
    /\ reqs[1].kind = "update"
    /\ result.success

\* A response with a status outside 200..299.
Non2xx(r) == r.resp.exc = "none" /\ r.resp.status \notin 200..299

\* C4: a non-2xx response to the slug lookup, the create or the update
\* gives a failed result whose message carries the response status code
\* and the response body; after a failed lookup no create or update
\* request is issued.
C4_ProtocolErrorReported ==
    (pc = "done" /\ reqs # <<>> /\ Non2xx(reqs[Len(reqs)])) =>
        /\ ~result.success
        /\ result.link = NoLink
        /\ result.message.code = reqs[Len(reqs)].resp.status
        /\ result.message.body = reqs[Len(reqs)].resp.text
        /\ reqs[1].kind = "lookup" /\ Non2xx(reqs[1]) => Len(reqs) = 1

\* C5: an exception raised by a remote request is caught inside the call
\* and returned as a failed result without a link, shaped like a protocol
\* failure; the call does not retry: it issues at most one lookup and at
\* most one create or update.
C5_ExceptionsCaughtNoRetry ==
    /\ pc # "raised"
    /\ (pc = "done" /\ reqs # <<>> /\ reqs[Len(reqs)].resp.exc # "none") =>
          /\ ~result.success
          /\ result.link = NoLink
          /\ result.message.kind \in {"connection_error", "unexpected_error"}
          /\ DOMAIN result = {"success", "link", "message"}
    /\ pc # "idle" =>
          /\ Count(reqs, {"lookup"}) <= 1
          /\ Count(reqs, {"create", "update"}) <= 1

C5_Witness ==
    /\ pc = "done"
    /\ Len(reqs) = 2
    /\ reqs[2].kind = "create"
    /\ reqs[2].resp.exc = "RequestException"
    /\ ~result.success

\* The body of every create and update request the call has issued.
Bodies == {reqs[i].body : i \in {j \in 1..Len(reqs) : reqs[j].kind # "lookup"}}

\* C6 as stated: the body of each create and update request has the
\* content passed to the call as its content, the status flag publish, and
\* all the caller's additional fields.
C6_BodyAsStated ==
    pc # "idle" =>
        \A b \in Bodies :
            /\ b.content = call.content
            /\ b.status = "publish"
            /\ \A k \in DOMAIN call.data : b[k] = call.data[k]

\* C6 (amended): the body of each create and update request has all the
\* caller's additional fields, and has the content passed to the call as
\* its content and the status flag publish wherever the caller's fields do
\* not set that key themselves.
C6_RequestBody ==
    pc # "idle" =>
        \A b \in Bodies :
            /\ DOMAIN b = DOMAIN call.data \cup {"content", "status"}
            /\ \A k \in DOMAIN call.data : b[k] = call.data[k]
            /\ "content" \notin DOMAIN call.data => b.content = call.content
            /\ "status" \notin DOMAIN call.data => b.status = "publish"

C6_Witness ==
    /\ pc = "done"
    /\ call.data = [status |-> "draft"]
    /\ \E b \in Bodies : b.status = "draft" /\ b.content = call.content

----------------------------------------------------------------------------
(* Properties of the batch upload and of the link registry.                *)

RunDisciplines == AllDisciplines(Data(run.yaml_file))

\* The discipline pages of the run's directory, and those of them that
\* name a discipline of the dataset and could be read.
PageFiles == {f \in run.files : ~IsIndex(f)}
Publishable ==
    {f \in PageFiles : DisciplineCode(f) \in DOMAIN RunDisciplines
                       /\ f \notin trail.unread}

PublishedOk == {f \in DOMAIN trail.outcome : trail.outcome[f].success}
PublishFailed == {f \in DOMAIN trail.outcome : ~trail.outcome[f].success}

\* The links a run's results amount to: the codes of the pages whose
\* publish succeeded, each with a link returned for that code.
LinksOfRun(links) ==
    /\ DOMAIN links = {DisciplineCode(f) : f \in PublishedOk}
    /\ \A c \in DOMAIN links :
          links[c] \in {trail.outcome[f].link :
                           f \in {g \in PublishedOk : DisciplineCode(g) = c}}

\* C7: in a batch upload a failure for one discipline page (failed
\* publish, unreadable file, file whose code is not in the dataset) does
\* not abort the batch: publish is attempted exactly once for every other
\* page of the directory, and only failing pages are missing from the
\* collected links.
C7_BatchContinues ==
    bpc = "done" =>
        /\ \A f \in Publishable :
              trail.attempts[f] = 1 /\ f \in DOMAIN trail.outcome
        /\ \A f \in run.files \ Publishable : trail.attempts[f] = 0
        /\ LinksOfRun(wp_links)

C7_Witness ==
    /\ bpc = "done"
    /\ \E f \in PublishFailed, g \in PublishedOk :
          /\ DisciplineCode(f) \notin DOMAIN wp_links
          /\ DisciplineCode(g) \in DOMAIN wp_links
    /\ \E f \in PageFiles : DisciplineCode(f) \notin DOMAIN RunDisciplines

Running == bpc \in {"loop", "wait"}

\* C8 as stated: during a batch run the registry file is written exactly
\* once, and only after publish has returned for every page of the run.
C8_WrittenOnceAsStated ==
    /\ Running => registry = trail.before /\ trail.writes = 0
    /\ bpc = "done" => trail.writes = 1

\* C8 (amended): a batch run that saves the registry (save_yaml, no single
\* discipline selected) writes the registry file exactly once, and a run
\* that does not save writes it not at all; the write comes only after
\* publish has returned for every page of the run, so in no intermediate
\* state of the run does the file hold a partial set of the run's links.
C8_WrittenOnce ==
    /\ Running => registry = trail.before /\ trail.writes = 0
    /\ bpc = "done" =>
          /\ trail.writes = (IF run.save_yaml THEN 1 ELSE 0)
          /\ \A f \in RegistryFiles \ {RegistryFile(run.yaml_file)} :
                registry[f] = trail.before[f]
          /\ IF run.save_yaml
             THEN /\ registry[RegistryFile(run.yaml_file)] # NoFile
                  /\ registry[RegistryFile(run.yaml_file)].links = wp_links
             ELSE registry = trail.before

C8_Witness ==
    /\ bpc = "done"
    /\ run.save_yaml
    /\ trail.writes = 1
    /\ Cardinality(DOMAIN registry[RegistryFile(run.yaml_file)].links) = 2

\* C9: recording the registry is a full overwrite with no merge: after a
\* run has written the registry its links map holds exactly the codes
\* whose publish succeeded in that run, each with the URL returned in that
\* run; a code an earlier run recorded and this run did not publish
\* successfully is absent.
C9_RegistryOverwritten ==
    (bpc = "done" /\ run.save_yaml) =>
        LET doc == registry[RegistryFile(run.yaml_file)]
        IN  /\ doc # NoFile
            /\ DOMAIN doc = {"year", "degree", "links"}
            /\ LinksOfRun(doc.links)

C9_Witness ==
    /\ bpc = "done"
    /\ run.save_yaml
    /\ trail.before[RegistryFile(run.yaml_file)] # NoFile
    /\ \E c \in DOMAIN trail.before[RegistryFile(run.yaml_file)].links :
          c \notin DOMAIN registry[RegistryFile(run.yaml_file)].links
    /\ registry[RegistryFile(run.yaml_file)].links # <<>>

\* The (year, degree) of a dataset file.
Identity(yaml_file) ==
    <<Get(Data(yaml_file).metadata, "year", ""),
      Get(Data(yaml_file).metadata, "degree", "")>>

\* The (year, degree) stored in every registry file is that of the dataset
\* whose run wrote the file last.
StoredIdentity ==
    \A f \in RegistryFiles :
        registry[f] # NoFile =>
            /\ trail.writer[f] \in YamlFiles
            /\ <<registry[f].year, registry[f].degree>> = Identity(trail.writer[f])

\* C10 as stated: the stored (year, degree) is that of the dataset whose
\* run produced the links, and runs for two datasets with different
\* (degree, year) never write the same registry file.
C10_OneFilePerIdentityAsStated ==
    /\ StoredIdentity
    /\ \A f \in RegistryFiles :
          \A y1, y2 \in trail.writers[f] : Identity(y1) = Identity(y2)

\* C10 (amended): the stored (year, degree) is that of the dataset whose
\* run produced the links in the file, and there is one registry file per
\* dataset file name: runs for two dataset files with different stems
\* never write the same registry file, and a file is written only by runs
\* for the dataset files it is named after.
C10_OneFilePerDatasetName ==
    /\ StoredIdentity
    /\ \A f \in RegistryFiles :
          \A y \in trail.writers[f] : f = <<"wp_links", <<"wp_links_", PathStem(y)>>, ".yaml">>
    /\ \A f \in RegistryFiles :
          \A y1, y2 \in trail.writers[f] : PathStem(y1) = PathStem(y2)

C10_Witness ==
    \E f \in RegistryFiles :
        /\ trail.writers[f] = {YamlBachelor, YamlBachelor23}
        /\ registry[f].year = "2023"
        /\ registry[RegistryFile(YamlMaster)] = NoFile

----------------------------------------------------------------------------
(* Properties of parse_index_links.                                        *)

\* The last parse_index_links found the index and opened a registry file.
Opened == report # "none" /\ parsed.before # NoIndex /\ parsed.wp_data # NoFile

\* The (year, degree) the registry document holds.
StoredIn(wp_data) == <<wp_data.year, wp_data.degree>>

\* C11: when the (year, degree) stored in the registry differs in either
\* field from that of the dataset, the rewrite reports a mismatch, does not
\* write the index and leaves its text as it was (no substitution).
C11_RewriteGuard ==
    (Opened /\ StoredIn(parsed.wp_data) # Identity(parsed.data_yaml)) =>
        /\ report = "mismatch"
        /\ parsed.writes = 0
        /\ index = parsed.before

\* A registry left by the 2023 dataset, with links, is read for the 2024
\* dataset of the same file name, and the index has links to rewrite.
C11_Witness ==
    /\ report = "mismatch"
    /\ parsed.data_yaml = YamlBachelor
    /\ StoredIn(parsed.wp_data) = <<"2023", "bachelor">>
    /\ parsed.wp_data.links # <<>>
    /\ parsed.before = IndexFull
    /\ MatchesFrom(parsed.before, 1) # {}
    /\ index = IndexFull

\* The position of the first quote of s at or after j, 0 if there is none.
QuoteFrom(s, j) ==
    LET qs == {k \in j..Len(s) : s[k] = "\""}
    IN  IF qs = {} THEN 0 ELSE First(qs)

\* The text before, from position i, laid against the text after, from
\* position j: ok iff they are equal except that where before has an href
\* of the convention (category prefixes as given), after has an href
\* attribute; subs lists, for each such place, group 1 of the href in
\* before and the target of the href in after.
RECURSIVE Aligned(_, _, _, _, _)
Aligned(prefixes, before, i, after, j) ==
    LET ms == {k \in i..Len(before) : MatchWith(prefixes, before, k).end # 0}
    IN  IF ms = {}
        THEN [ok |-> SubSeq(before, i, Len(before)) = SubSeq(after, j, Len(after)),
              subs |-> <<>>]
        ELSE LET k == First(ms)
                 m == MatchWith(prefixes, before, k)
                 j2 == j + (k - i)
                 q == QuoteFrom(after, j2 + Len(HrefOpen))
             IN  IF \/ j2 > Len(after)
                    \/ SubSeq(before, i, k - 1) # SubSeq(after, j, j2 - 1)
                    \/ ~StartsWith(after, j2, HrefOpen)
                    \/ q = 0
                 THEN [ok |-> FALSE, subs |-> <<>>]
                 ELSE LET rest == Aligned(prefixes, before, m.end + 1, after, q + 1)
                      IN  [ok |-> rest.ok,
                           subs |-> << <<m.code,
                                        SubSeq(after, j2 + Len(HrefOpen), q - 1)>> >>
                                    \o rest.subs]

\* The target the claim gives an href of the convention: the registry URL
\* of the code with underscore turned into space, or the placeholder.
ExpectedTarget(group1, links) ==
    LET code == Replace(group1, "_", " ")
    IN  IF code \in DOMAIN links THEN <<"w", "p", "/">> \o Decimal(links[code][2])
        ELSE <<"#">>

\* The index is its text before the rewrite with every href of the
\* convention given its expected target, and nothing else changed.
RewrittenAs(prefixes) ==
    LET al == Aligned(prefixes, parsed.before, 1, index, 1)
    IN  /\ al.ok
        /\ \A k \in 1..Len(al.subs) :
              al.subs[k][2] = ExpectedTarget(al.subs[k][1], parsed.wp_data.links)

\* The registry read by the last rewrite holds the dataset's (year, degree).
Matching == Opened /\ StoredIn(parsed.wp_data) = Identity(parsed.data_yaml)

Capitals == {"A", "K", "N", "O", "P", "V", "Z"}

\* Any category prefix of one or two capital letters.
ShortPrefixes ==
    {<<c>> : c \in Capitals} \cup {<<c, d>> : c \in Capitals, d \in Capitals}

\* C12 as stated: under a matching identity every href whose target is a
\* short category prefix, a space or underscore, two digits, an optional
\* decimal suffix and .html is replaced by the registry URL of the
\* normalized code, or by # when the registry has no entry.
C12_RewriteAsStated ==
    Matching => (report = "replaced" /\ RewrittenAs(ShortPrefixes))

\* C12 (amended): under a matching identity every href whose target is one
\* of the five category prefixes ZO, PO, PV, NK, VK (in Cyrillic), a space
\* or underscore, two digits, an optional decimal suffix and .html is
\* replaced by the registry URL of the normalized code, or by # when the
\* registry has no entry; an href with any other prefix is left as it is.
C12_Rewrite ==
    Matching => (report = "replaced" /\ RewrittenAs(Prefixes))

\* The master registry holds ZO 01: the two spellings of its link get the
\* URL, the link of the unregistered PV 03.1 gets the placeholder.
C12_Witness ==
    /\ Matching
    /\ parsed.data_yaml = YamlMaster
    /\ parsed.before = IndexFull
    /\ CodeZ1 \in DOMAIN parsed.wp_data.links
    /\ LET subs == Aligned(Prefixes, parsed.before, 1, index, 1).subs
       IN  /\ Len(subs) = 3
           /\ subs[1] = <<StemZ1, <<"w", "p", "/", "3">> >>
           /\ subs[2] = <<CodeZ1, <<"w", "p", "/", "3">> >>
           /\ subs[3] = << <<"P", "V", "_", "0", "3", ".", "1">>, <<"#">> >>

\* C13: what the rewrite leaves of the index is its text before with only
\* the hrefs matching the convention replaced by an href attribute: all
\* other text and all other hrefs are the same, in the same order. When
\* nothing is rewritten the index is the same text.
C13_RewriteFrame ==
    (report # "none" /\ parsed.before # NoIndex) =>
        IF report = "replaced"
        THEN Aligned(Prefixes, parsed.before, 1, index, 1).ok
        ELSE index = parsed.before

\* An index with text, matching hrefs and other hrefs has been rewritten.
C13_Witness ==
    /\ report = "replaced"
    /\ parsed.data_yaml = YamlBachelor
    /\ parsed.before = IndexFull
    /\ index # parsed.before
    /\ Len(Aligned(Prefixes, parsed.before, 1, index, 1).subs) = 3
    /\ StartsWith(index, Len(index) - Len(Anchor(<<"#">>)) + 1, Anchor(<<"#">>))

----------------------------------------------------------------------------
(* Properties of the registry between publish and rewrite.                 *)

\* The last handle_upload has finished and saved its links, and the last
\* parse_index_links ran after it, for the same dataset file.
ReadAfterRecord ==
    /\ bpc = "done"
    /\ trail.writes = 1
    /\ report # "none"
    /\ parsed.run = nruns
    /\ parsed.data_yaml = run.yaml_file

\* C14: after a publish run has recorded its links for a dataset, the
\* rewrite for that dataset reads from the registry exactly those links
\* (same codes, same URLs) and the year and degree of the dataset.
C14_RegistryRoundTrip ==
    ReadAfterRecord =>
        /\ report \in {"replaced", "mismatch"}
        /\ parsed.wp.links = wp_links
        /\ <<parsed.wp.year, parsed.wp.degree>> = Identity(run.yaml_file)

\* The run for the master dataset recorded the link of ZO 01 and the
\* rewrite has read it.
C14_Witness ==
    /\ ReadAfterRecord
    /\ run.yaml_file = YamlMaster
    /\ DOMAIN wp_links = {CodeZ1}
    /\ parsed.wp.links = wp_links
    /\ report = "replaced"

----------------------------------------------------------------------------
(* Properties of the matrix tools.                                         *)

\* The tool has run and has not raised.
Written(out) == out # NoOutput /\ "raised" \notin DOMAIN out

\* The codes of a catalog of the dataset; none when the section is absent.
Catalog(key) == IF key \in DOMAIN config THEN Range(config[key]) ELSE {}

\* The mapping entries of the dataset.
Entries == IF "mappings" \in DOMAIN config THEN config.mappings ELSE <<>>

\* The discipline codes that are mapping keys.
MappingKeys == {Entries[i][1] : i \in 1..Len(Entries)}

\* The list the entry of discipline disc gives for field, as written.
Listed(disc, field) ==
    IF disc \in MappingKeys
    THEN LET entry == Entries[CHOOSE i \in 1..Len(Entries) : Entries[i][1] = disc][2]
         IN  IF field \in DOMAIN entry THEN entry[field] ELSE <<>>
    ELSE <<>>

AllCodes == {"A01", "A02", "X9", "C1", "C2", "C9", "P1", "P9"}

Occurrences(list, e) == Cardinality({k \in 1..Len(list) : list[k] = e})

\* How many times the mapping entry of disc refers to code, for a code that
\* is absent from the catalog the kind of reference is checked against.
Offending(kind, code, disc) ==
    CASE kind = "unknown_discipline" ->
           IF code = disc /\ disc \in MappingKeys /\ code \notin Catalog("disciplines")
           THEN 1 ELSE 0
      [] kind = "unknown_competency" ->
           IF code \in Catalog("competencies") THEN 0
           ELSE Occurrences(Listed(disc, "competencies"), code)
      [] OTHER ->
           IF code \in Catalog("program_results") THEN 0
           ELSE Occurrences(Listed(disc, "program_results"), code)

ReferenceKinds ==
    {"unknown_discipline", "unknown_competency", "unknown_program_result"}

\* C15: validate reports one error for every reference of a mapping entry
\* (its discipline key, a listed competency code, a listed program-result
\* code) to a code absent from the respective catalog, and no referential
\* error for any other entry or code.
C15_ReferentialErrors ==
    validation # NoOutput =>
        \A kind \in ReferenceKinds, code \in AllCodes, disc \in AllCodes :
            Occurrences(validation.errors,
                        [kind |-> kind, code |-> code, disc |-> disc])
                = Offending(kind, code, disc)

\* An unknown discipline key, an unknown competency and an unknown program
\* result are reported, next to references that are in order.
C15_Witness ==
    /\ validation # NoOutput
    /\ Catalog("disciplines") = {"A01"}
    /\ Catalog("competencies") = {"C1"}
    /\ Catalog("program_results") = {"P1"}
    /\ MappingKeys = {"X9", "A01"}
    /\ Listed("X9", "competencies") = <<"C1">>
    /\ Len(validation.errors) = 3
    /\ validation.errors[1] = [kind |-> "unknown_discipline", code |-> "X9", disc |-> "X9"]
    /\ validation.errors[2] = [kind |-> "unknown_competency", code |-> "C2", disc |-> "A01"]
    /\ validation.errors[3] = [kind |-> "unknown_program_result", code |-> "P9", disc |-> "A01"]

\* The disciplines of the catalog that are no mapping key.
Unfilled == {d \in Catalog("disciplines") : d \notin MappingKeys}

\* C16: the count of validate's unfilled warning, and the unfilled figure
\* of the statistics, is the number of disciplines of the catalog that are
\* no mapping key, whatever the mapping entries are; the warning is there
\* iff that number is positive, and there is at most one.
C16_UnfilledCount ==
    /\ validation # NoOutput =>
          /\ Len(validation.warnings) <= 1
          /\ Len(validation.warnings) = 1 <=> Cardinality(Unfilled) > 0
          /\ \A k \in 1..Len(validation.warnings) :
                validation.warnings[k].count = Cardinality(Unfilled)
    /\ Written(statistics) => statistics.unfilled = Cardinality(Unfilled)

Scenario ==
    /\ Catalog("disciplines") = {"A01", "A02"}
    /\ "competencies" \in DOMAIN config
    /\ config.competencies = <<"C1">>
    /\ Entries = << <<"A01", [competencies |-> <<"C1">>, program_results |-> <<>>]>> >>

\* What the scenario expects of validate and of build.
ScenarioOutcome ==
    /\ validation # NoOutput =>
          /\ validation.errors = <<>>
          /\ validation.warnings = <<[kind |-> "unfilled", count |-> 1]>>
    /\ workbook # NoOutput =>
          /\ Written(workbook)
          /\ workbook.comp_df.cells[<<"C1", "A01">>] = "+"
          /\ workbook.comp_df.cells[<<"C1", "A02">>] = ""

\* C18 as stated: for the dataset with disciplines A01 and A02, competency
\* C1 and the mapping of A01 to C1, validate reports no error and one
\* warning (1 unfilled) and build marks row C1 under A01 and not under A02.
C18_ScenarioAsStated == Scenario => ScenarioOutcome

\* C18 (amended): the same for that dataset when it also has a program
\* result catalog that is not empty.
C18_Scenario == (Scenario /\ Catalog("program_results") # {}) => ScenarioOutcome

C18_Witness ==
    /\ Scenario
    /\ Catalog("program_results") = {"P1"}
    /\ validation # NoOutput
    /\ validation.valid
    /\ validation.warnings = <<[kind |-> "unfilled", count |-> 1]>>
    /\ Written(workbook)
    /\ workbook.comp_df.cells[<<"C1", "A01">>] = "+"
    /\ workbook.comp_df.cells[<<"C1", "A02">>] = ""

\* Every cell of the table is "+" or empty, and "+" iff the mapping entry
\* of the cell's discipline lists the cell's code.
CellsAsMapped(table, catalog_key, field) ==
    \A c \in Catalog(catalog_key), d \in Catalog("disciplines") :
        /\ table.cells[<<c, d>>] \in {"+", ""}
        /\ table.cells[<<c, d>>] = "+" <=> c \in Range(Listed(d, field))

\* C19: for every code of a catalog and every discipline of the catalog
\* the cell is marked iff the discipline's mapping entry lists the code, in
\* the spreadsheet and in the report, in whatever order the catalogs and
\* the mappings are written.
C19_CellsFromMappings ==
    /\ Written(workbook) =>
          /\ CellsAsMapped(workbook.comp_df, "competencies", "competencies")
          /\ CellsAsMapped(workbook.prog_df, "program_results", "program_results")
    /\ Written(html_report) =>
          /\ CellsAsMapped(html_report.comp, "competencies", "competencies")
          /\ CellsAsMapped(html_report.prog, "program_results", "program_results")

\* Mappings and catalogs written in the other order: spreadsheet and
\* report have marked and unmarked cells, the same ones.
C19_Witness ==
    /\ Written(workbook)
    /\ Written(html_report)
    /\ config.disciplines = <<"A02", "A01">>
    /\ config.competencies = <<"C2", "C1">>
    /\ config.program_results = <<"P1">>
    /\ Len(Entries) = 2
    /\ Entries[1][1] = "A02"
    /\ workbook.comp_df.cells[<<"C1", "A01">>] = "+"
    /\ workbook.comp_df.cells[<<"C1", "A02">>] = ""
    /\ workbook.prog_df.cells[<<"P1", "A01">>] = "+"
    /\ workbook.comp_df.cells = html_report.comp.cells
    /\ workbook.prog_df.cells = html_report.prog.cells

\* The number of marked cells in the column of discipline d.
MarkedInColumn(frame, d) ==
    Cardinality({c \in Range(frame.index) : frame.cells[<<c, d>>] = "+"})

\* The codes a joined cell of the summary carries.
CodesOf(joined) == SelectSeq(joined, LAMBDA x : x # ", ")

\* One row per discipline of the catalog, in its order, carrying the codes
\* the discipline's mapping lists.
RowPerDiscipline ==
    /\ Len(workbook.summary) = Len(config.disciplines)
    /\ \A i \in 1..Len(config.disciplines) :
          LET row == workbook.summary[i]
              d == config.disciplines[i]
          IN  /\ row.code = d
              /\ CodesOf(row.competencies) = Listed(d, "competencies")
              /\ CodesOf(row.program_results) = Listed(d, "program_results")

\* C20 as stated: one row per discipline, and the two counts of a row are
\* the numbers of marked cells in the discipline's columns.
C20_SummaryRowsAsStated ==
    Written(workbook) =>
        /\ RowPerDiscipline
        /\ \A i \in 1..Len(config.disciplines) :
              LET row == workbook.summary[i]
              IN  /\ row.n_competencies = MarkedInColumn(workbook.comp_df, row.code)
                  /\ row.n_program_results = MarkedInColumn(workbook.prog_df, row.code)

\* Every code the entry of d lists is in its catalog and is listed once.
CleanLists(d) ==
    /\ Range(Listed(d, "competencies")) \subseteq Catalog("competencies")
    /\ Range(Listed(d, "program_results")) \subseteq Catalog("program_results")
    /\ Cardinality(Range(Listed(d, "competencies"))) = Len(Listed(d, "competencies"))
    /\ Cardinality(Range(Listed(d, "program_results"))) = Len(Listed(d, "program_results"))

\* C20 (amended): one row per discipline of the catalog, unfilled ones with
\* empty lists and zero counts; the two counts are the lengths of the two
\* lists as the mapping writes them, and they are the numbers of marked
\* cells in the discipline's columns when every listed code is in its
\* catalog and is listed once.
C20_SummaryRows ==
    Written(workbook) =>
        /\ RowPerDiscipline
        /\ \A i \in 1..Len(config.disciplines) :
              LET row == workbook.summary[i]
              IN  /\ row.n_competencies = Len(Listed(row.code, "competencies"))
                  /\ row.n_program_results = Len(Listed(row.code, "program_results"))
                  /\ CleanLists(row.code) =>
                        /\ row.n_competencies = MarkedInColumn(workbook.comp_df, row.code)
                        /\ row.n_program_results = MarkedInColumn(workbook.prog_df, row.code)

\* A filled discipline with one competency, marked once in its column, and
\* an unfilled one with a row of empty lists and zero counts.
C20_Witness ==
    /\ Written(workbook)
    /\ config.disciplines = <<"A01", "A02">>
    /\ MappingKeys = {"A01"}
    /\ Len(workbook.summary) = 2
    /\ workbook.summary[1].n_competencies = 1
    /\ MarkedInColumn(workbook.comp_df, "A01") = 1
    /\ workbook.summary[2] =
          [code |-> "A02", competencies |-> <<>>, program_results |-> <<>>,
           n_competencies |-> 0, n_program_results |-> 0]

----------------------------------------------------------------------------
(* Properties of parse_index_links called without a dataset, and twice.    *)

\* C24: when parse_index_links is called with data_yaml=None the check of
\* year and degree is skipped and the hrefs of the index are rewritten
\* from the registry links; the call does not fail.
C24_NoDatasetRewrites ==
    (report # "none" /\ parsed.data_yaml = NoYaml /\ parsed.before # NoIndex) =>
        report = "replaced"

\* The last rewrite took the same registry document as the one before it,
\* which had rewritten the index too.
Repeated == report = "replaced" /\ parsed.again

\* C27: with a matching identity and an unchanged registry, a second
\* rewrite of the index leaves the document the first one produced: the
\* index a rewrite has written has no href the pattern matches, and
\* rewriting it again from the same links gives the same text.
C27_RewriteIdempotent ==
    /\ Repeated => index = parsed.before
    /\ report = "replaced" =>
          /\ MatchesFrom(index, 1) = {}
          /\ Rewritten(index, parsed.wp.links) = index

\* The full index was rewritten from the master registry holding ZO 01,
\* and then once more: hrefs with the URL and with # are in the text.
C27_Witness ==
    /\ Repeated
    /\ nparses = 2
    /\ parsed.data_yaml = YamlMaster
    /\ CodeZ1 \in DOMAIN parsed.wp.links
    /\ index = Rewritten(IndexFull, parsed.wp.links)
    /\ index # IndexFull
    /\ \E i, j \in 1..Len(index) :
          /\ StartsWith(index, i, Anchor(<<"w", "p", "/", "3">>))
          /\ StartsWith(index, j, Anchor(<<"#">>))

----------------------------------------------------------------------------
(* Properties of publishes of one slug at the same time.                   *)

\* C25: publishes of one slug that run one after the other (no call
\* begins while another is between its lookup and its create or update)
\* never leave two remote pages with the slug, starting from a remote
\* with no page of that slug; two pages are reachable only when the calls
\* overlap (both look the slug up before either creates).
C25_SerializedNoDuplicate ==
    ~peer.overlap => CountSlug(remote, SlugA1) <= 1

\* Both calls looked the slug up before either created: each got 201 for
\* its create and the remote holds two pages with the slug.
C25_Witness ==
    /\ peer.overlap
    /\ CountSlug(remote, SlugA1) = 2
    /\ peer.pc = "done" /\ peer.result.success /\ peer.result.message.kind = "created"
    /\ pc = "done" /\ result.success /\ result.message.kind = "created"
    /\ ncalls = 1

----------------------------------------------------------------------------
(* Properties of interactive filling.                                      *)

\* The errors validate_data reports for a dataset.
ValidationErrors(cfg) ==
    LET disciplines == Get(cfg, "disciplines", <<>>)
        competencies == Get(cfg, "competencies", <<>>)
        program_results == Get(cfg, "program_results", <<>>)
        structure == StructureErrors(disciplines, competencies, program_results)
    IN  structure
        \o MappingErrors(Checked(structure, Get(cfg, "mappings", <<>>)), 1,
                         disciplines, competencies, program_results)

FileMappings == Get(config, "mappings", <<>>)
OldMappings == Get(fill.before, "mappings", <<>>)

\* The entries the file holds that it did not hold before the filling.
AddedEntries == Len(OldMappings) + 1 .. Len(FileMappings)

\* C29: whatever is typed at the prompts, the mapping entries the file
\* had are never changed or removed; every entry added is one of a
\* discipline of the catalog that had none, and lists only codes of the
\* respective catalogs; the file holds the entry of a discipline before
\* the next one is prompted; all other top-level keys are as they were;
\* a dataset with no validation errors before filling has none after.
C29_FillPreservesModel ==
    /\ Len(FileMappings) >= Len(OldMappings)
    /\ SubSeq(FileMappings, 1, Len(OldMappings)) = OldMappings
    /\ \A k \in AddedEntries :
          /\ Has(config.disciplines, FileMappings[k][1])
          /\ \A j \in 1..(k - 1) : FileMappings[j][1] # FileMappings[k][1]
          /\ DOMAIN FileMappings[k][2] = {"competencies", "program_results"}
          /\ Range(FileMappings[k][2].competencies) \subseteq Range(config.competencies)
          /\ Range(FileMappings[k][2].program_results)
                \subseteq Range(config.program_results)
    /\ fill.pc \in {"prompt", "continue", "done"} =>
          /\ config = fill.config
          /\ \A k \in 1..Len(fill.unfilled) :
                (k < fill.i \/ (k = fill.i /\ fill.pc # "prompt")) =>
                    HasKey(FileMappings, fill.unfilled[k])
    /\ DOMAIN config \ {"mappings"} = DOMAIN fill.before \ {"mappings"}
    /\ \A key \in DOMAIN fill.before \ {"mappings"} : config[key] = fill.before[key]
    /\ ("mappings" \in DOMAIN fill.before => "mappings" \in DOMAIN config)
    /\ ValidationErrors(fill.before) = <<>> => ValidationErrors(config) = <<>>

\* A valid dataset with the entry of A01 and none for A02: the numbers
\* typed for A02 were on the list, twice the same, and the text typed for
\* the outcomes was no number; the entry is in the file after the old one.
C29_Witness ==
    /\ fill.pc = "done"
    /\ fill.writes = 1
    /\ ValidationErrors(fill.before) = <<>>
    /\ OldMappings = << <<"A01", MapEntry(<<"C1">>, <<>>)>> >>
    /\ FileMappings = Append(OldMappings, <<"A02", MapEntry(<<"C1", "C1">>, <<>>)>>)
    /\ fill.typed = << <<"1", ",", "1">>, <<"x">> >>

----------------------------------------------------------------------------
(* Properties of the command line.                                         *)

\* The order the actions are to run in, and the place of each in it.
Rank ==
    [clean |-> 1, discipline |-> 2, all |-> 3, upload |-> 4, index |-> 5,
     parse_index |-> 6, upload_index |-> 7]

CommandYaml == Data(cli.args.yaml_file)

\* The pages --all writes for the dataset of the command line.
AllPages ==
    {GetSafeFilename(c) : c \in DOMAIN MergedByUpdate(CommandYaml).disciplines}

\* C26: the actions of one command line run in the order clean, single
\* discipline, all, upload, index, parse-index, upload-index, each
\* requested one once and none that was not requested; a command that
\* ends normally has run all that were requested; with --all and --upload
\* the publish run starts over a directory holding every page --all
\* generates; with --upload and --parse-index the registry document the
\* rewrite reads is the one the publish run of this command wrote; with
\* --index, --parse-index and --upload-index the content uploaded is the
\* index generated by this command with its links rewritten.
C26_FixedActionOrder ==
    cli # NoCli =>
      /\ \A i, j \in 1..Len(cli.log) :
            i < j => Rank[cli.log[i]] < Rank[cli.log[j]]
      /\ \A i \in 1..Len(cli.log) : Requested(cli.args, cli.log[i])
      /\ cli.status = "done" =>
            \A name \in DOMAIN Rank :
                Requested(cli.args, name) => \E i \in 1..Len(cli.log) : cli.log[i] = name
      /\ (nruns > 0 /\ "all" \in cli.args.flags) =>
            /\ \E i \in 1..Len(cli.log) : cli.log[i] = "all"
            /\ dir # NoDir /\ AllPages \subseteq dir
            /\ bpc # "idle" => AllPages \subseteq run.files
            /\ \A f \in DOMAIN trail.attempts : trail.attempts[f] > 0 => f \in run.files
      /\ (nparses > 0 /\ "upload" \in cli.args.flags
            /\ report \in {"mismatch", "replaced"}) =>
            /\ bpc = "done"
            /\ trail.writes = 1 =>
                  parsed.wp_data = WpData(CommandYaml, wp_links)
      /\ (cli.sent > 0 /\ {"index", "parse_index"} \subseteq cli.args.flags) =>
            LET generated == IndexPage(IndexData(cli.args.yaml_file).view)
                sent == IF pc = "idle" THEN cli.uploaded.content ELSE call.content
            IN  /\ report \in {"mismatch", "replaced"}
                /\ report = "replaced" => sent = Rewritten(generated, parsed.wp.links)
                /\ report = "mismatch" => sent = generated
                /\ sent = index

\* All six flags at once for the slash dataset: the pages were generated
\* and published, the registry written and read, and the index generated,
\* rewritten with the link of ZO 01 and uploaded.
C26_Witness ==
    /\ cli # NoCli
    /\ cli.status = "done"
    /\ cli.log = <<"clean", "all", "upload", "index", "parse_index", "upload_index">>
    /\ trail.writes = 1
    /\ CodeZ1 \in DOMAIN wp_links
    /\ report = "replaced"
    /\ index # IndexPage(IndexData(cli.args.yaml_file).view)
    /\ cli.uploaded # NoUpload
    /\ cli.uploaded.success
    /\ cli.uploaded.content = index

\* C28: for every discipline code of the dataset the code the upload step
\* derives from the file name page generation produced is the code itself,
\* and a publish run over the pages --all generated has taken up every
\* one of them (published or tried to), none was skipped as unknown.
C28_FileNameRoundTrip ==
    (cli # NoCli /\ {"all", "upload"} \subseteq cli.args.flags /\ bpc = "done") =>
        \A c \in DOMAIN MergedByUpdate(CommandYaml).disciplines :
            LET html_file == GetSafeFilename(c)
            IN  /\ DisciplineCode(html_file) = c
                /\ html_file \in run.files
                /\ trail.attempts[html_file] > 0 \/ html_file \in trail.unread

\* The dataset as the file of the command line holds it.
Primary == Get(CommandYaml, "disciplines", <<>>)
Elective == Get(CommandYaml, "elevative_disciplines", <<>>)

\* C21: after an operation that merged the two catalogs, the merged view
\* holds, for a code of both catalogs, the entry of the primary catalog
\* (disciplines), and the elective catalog of the loaded dataset is what
\* the file holds: the same codes with the same entries.
C21_CopyOnMergePrimaryWins ==
    (cli # NoCli /\ loaded # NoLoaded) =>
        /\ \A c \in DOMAIN Primary \cap DOMAIN Elective :
              c \in DOMAIN loaded.view /\ loaded.view[c].name = Primary[c].name
        /\ Get(loaded.data, "elevative_disciplines", <<>>) = Elective

\* The metadata of the dataset of the command line carries no page id:
\* the key is missing or holds nothing.
NoPageId == Get(CommandYaml.metadata, "page_id", NoId) = NoId

\* No request of this command has reached the remote.
NothingSent ==
    /\ pc = "idle"
    /\ reqs = <<>>
    /\ cli.sent = 0
    /\ \A f \in DOMAIN trail.attempts : trail.attempts[f] = 0
    /\ remote = <<OldPage(10)>>

\* C22: a command for a dataset without a page id issues no remote
\* request in its batch upload or its index upload, the registry files
\* are as they were before the command, and a command of uploads only
\* leaves the index document as it was.
C22_NoPageIdNoRequest ==
    (cli # NoCli /\ NoPageId) =>
        /\ NothingSent
        /\ registry = cli.before.registry
        /\ cli.args.flags \subseteq {"upload", "upload_index"} =>
              index = cli.before.index

\* handle_upload of this command has been called and is over.
UploadOver ==
    /\ cli # NoCli
    /\ \E i \in 1..Len(cli.log) : cli.log[i] = "upload"
    /\ bpc \in {"idle", "done"}

CommandRegistry == RegistryFile(cli.args.yaml_file)

\* C30 as stated: with -d the registry file of the dataset is after the
\* publish run what it was before, without -d the run has written it.
C30_AsStated ==
    UploadOver =>
        IF cli.args.discipline # NoArg
        THEN registry[CommandRegistry] = cli.before.registry[CommandRegistry]
        ELSE trail.writes = 1

\* C30: with a non-empty -d the publish run of the command writes no
\* registry file, whatever its publish results; without -d, or with an
\* empty one, a run that got past its preconditions (the directory
\* exists, the metadata has the key page_id) has written the registry
\* file of the dataset once, with the links it collected, and a run a
\* precondition stopped has written nothing.
C30_RegistryWrite ==
    UploadOver =>
        IF cli.args.discipline \notin {NoArg, <<>>}
        THEN trail.writes = 0 /\ registry = cli.before.registry
        ELSE IF cli.upload_dir # NoDir /\ HasParentId(CommandYaml)
        THEN /\ bpc = "done"
             /\ trail.writes = 1
             /\ registry = [cli.before.registry EXCEPT ![CommandRegistry] =
                                WpData(CommandYaml, wp_links)]
        ELSE /\ bpc = "idle"
             /\ trail.writes = 0
             /\ registry = cli.before.registry

\* -d "A 01" --upload: the page was generated and published, its link
\* collected, and the registry file does not hold it.
C30_Witness ==
    /\ UploadOver
    /\ cli.args.discipline = CodeA1
    /\ bpc = "done"
    /\ CodeA1 \in DOMAIN wp_links
    /\ registry[CommandRegistry] # WpData(CommandYaml, wp_links)
    /\ registry = cli.before.registry

----------------------------------------------------------------------------
(* Properties of cancellation.                                             *)

\* The slugs of the pages the remote holds.
SlugsOf(store) == {PageSlug(store[i]) : i \in 1..Len(store)}

\* A run of the cancelled dataset over the same files, started after the
\* cancellation, has come to its end, and every publish of it succeeded.
CompleteRerun ==
    /\ trail.cancelled.happened
    /\ nruns > trail.cancelled.run
    /\ bpc = "done"
    /\ run.yaml_file = trail.cancelled.yaml_file
    /\ run.files = trail.cancelled.files
    /\ trail.unread = {}
    /\ \A f \in DOMAIN trail.outcome : trail.outcome[f].success

\* C23: a publish run cancelled after some pages were published has left
\* every registry file as it was before the run; from then on no second
\* page is created for a slug the remote held at the cancellation; and a
\* later complete run of the same dataset over the same pages, with all
\* publishes succeeding, ends with a registry file that holds, for every
\* discipline published before the cancellation and for every discipline
\* page of the directory, the link of a page of the remote.
C23_SelfHealing ==
    trail.cancelled.happened =>
        /\ trail.cancelled.registry = trail.cancelled.before
        /\ \A s \in SlugsOf(trail.cancelled.remote) :
              CountSlug(remote, s) = CountSlug(trail.cancelled.remote, s)
        /\ CompleteRerun =>
              LET links == registry[RegistryFile(run.yaml_file)].links
                  catalog == AllDisciplines(Data(run.yaml_file))
              IN  /\ trail.cancelled.published \subseteq DOMAIN links
                  /\ \A f \in run.files :
                        (~IsIndex(f) /\ DisciplineCode(f) \in DOMAIN catalog) =>
                            DisciplineCode(f) \in DOMAIN links
                  /\ \A c \in DOMAIN links :
                        \E id \in 1..Len(remote) :
                            /\ links[c] = Link(id)
                            /\ PageSlug(remote[id]) =
                                   Slugify(Title(c, catalog[c].name))

\* The first run created the pages of A 01 and A 02 and was cancelled
\* before it saved; the second run found both by their slugs, created
\* nothing, and saved the links of both.
C23_Witness ==
    /\ CompleteRerun
    /\ trail.cancelled.published = {CodeA1, CodeA2}
    /\ trail.cancelled.registry[RegistryFile(YamlBachelor)] = NoFile
    /\ Len(trail.cancelled.remote) = 2
    /\ Len(remote) = 2
    /\ DOMAIN registry[RegistryFile(YamlBachelor)].links = {CodeA1, CodeA2}

====
